---- MODULE Spec2Model ----
(***************************************************************************)
(* Zhihu2Markdown userscript: the content-retrieval pipeline               *)
(* (fetchDocument, extractContentFromDocument, extractFromInitialData,     *)
(* fetchZhihuArticleDetailsByApi, fetchZhihuArticleDetails), the image      *)
(* inliner (fetchImageAsDataUrl, convertImagesToDataUrls) and the batch     *)
(* loop of downloadZhihuListArticles.                                       *)
(*                                                                         *)
(* Representation of JavaScript values                                     *)
(*   text        a TLA+ string, "" is the empty string                      *)
(*   URL         a sequence of tokens, <<>> is the empty string, e.g.       *)
(*               <<"https://", "zhuanlan.zhihu.com", "/p/", "101">>         *)
(*   JSON field  [t |-> "undef"], [t |-> "str", s |-> URL], [t |-> "num"]    *)
(*   date input  [t |-> "undef" | "num" | "digits" | "iso" | "junk", ...]   *)
(*   date        <<>> for '' and <<day>> for the YYYY-MM-DD of that day     *)
(*   element     [k |-> "none"] for null, [k |-> "node", ...] otherwise     *)
(***************************************************************************)
EXTENDS Integers, Sequences, FiniteSets, TLC

VARIABLES
    fetchedDocumentCache, \* Map normalized url -> parsed document
    imageDataCache,       \* Map normalized url -> data URL
    net,                  \* GM_xmlhttpRequest calls whose callback has not run
    requests,             \* number of GM_xmlhttpRequest calls issued so far
    rpc,                  \* position of fetchZhihuArticleDetails
    rurl,                 \* its url argument
    rdoc,                 \* the document its fetchDocument resolved to
    rres,                 \* the value its promise settled with
    rlog,                 \* strategies it has run, in execution order
    rapi,                 \* the API response body it was given
    bpc,                  \* position of downloadZhihuListArticles
    entries,              \* the collected entries (Array.from(all.values()))
    idx,                  \* index of the entry of the current loop iteration
    processed,            \* let processed
    status,               \* per entry: "pending", "resolving", "converting", "saved", "skipped"
    saved,                \* positions handed to downloadMarkdownFile, in order
    progress,             \* showProgress calls of the batch loop, in order
    remote,               \* remoteArticle of the current iteration
    ibase,                \* baseUrl of the convertImagesToDataUrls call
    imgs,                 \* the <img> elements of the fragment being inlined
    imgOrig,              \* the same elements when convertImagesToDataUrls was called
    ipc,                  \* per image: position of its map callback
    cpc,                  \* position of convertImagesToDataUrls
    fpc,                  \* the helper function being applied on its own, or "idle"
    farg,                 \* its argument
    fval,                 \* the values it returned, in order
    calls,                \* the timeout of each showProgress call so far, in order
    shown,                \* progress.style.display is 'block'
    timers,               \* the setTimeout callbacks of showProgress not yet run
    now,                  \* the time in milliseconds
    ppc,                  \* position of processContent
    contentElement,       \* the element processContent was given
    clone,                \* const content = contentElement.cloneNode(true)
    apc,                  \* position of autoCollectEntries
    all,                  \* const all = new Map(): its entries in insertion order
    idleRounds,           \* let idleRounds
    lastSize,             \* let lastSize
    round,                \* the loop variable round
    dom,                  \* the items of the list page at the latest collectEntriesFromDom()
    page,                 \* what the page does on scrolling, and the links it has produced
    quiet,                \* history: the latest consecutive rounds that added no entry
    locationHref,         \* window.location.href of the page the button is on
    runs                  \* per click of the button: the position of the download it started

indicatorVars == <<calls, shown, timers, now>>
processVars   == <<ppc, contentElement, clone>>
collectVars   == <<apc, all, idleRounds, lastSize, round, dom, page, quiet>>
runVars       == <<locationHref, runs>>
pageVars      == <<indicatorVars, processVars, collectVars, runVars>>

vars == <<fetchedDocumentCache, imageDataCache, net, requests, rpc, rurl, rdoc,
          rres, rlog, rapi, bpc, entries, idx, processed, status, saved,
          progress, remote, ibase, imgs, imgOrig, ipc, cpc, fpc, farg, fval,
          pageVars>>

resolverVars == <<rpc, rurl, rdoc, rres, rlog, rapi>>
batchVars    == <<bpc, entries, idx, processed, status, saved, progress, remote>>
inlineVars   == <<ibase, imgs, imgOrig, ipc, cpc>>
helperVars   == <<fpc, farg, fval>>

----------------------------------------------------------------------------
(* Bounds of the model *)

MaxEntries == 2
MaxImages  == 2

----------------------------------------------------------------------------
(* Values *)

Undef == [t |-> "undef"]
Str(s) == [t |-> "str", s |-> s]
Num == [t |-> "num"]

NoNode == [k |-> "none"]
Null   == [k |-> "null"]

EmptyMap == [x \in {} |-> Null]

\* JavaScript truthiness of a JSON field holding a URL-like value
Truthy(v) == v.t = "num" \/ (v.t = "str" /\ v.s # <<>>)

\* window.location of the list page the script runs on
WindowLocationHref == <<"https://", "www.zhihu.com", "/people/", "u1", "/posts">>
WindowLocationProtocolSlashes == "https://"

StartsWith(u, tok) == Len(u) > 0 /\ Head(u) = tok

\* `https://zhuanlan.zhihu.com/p/${id}`
ArticleUrl(id) == <<"https://", "zhuanlan.zhihu.com", "/p/", id>>

\* new URL(rawUrl, base) succeeds: the base is an absolute http(s) URL
CanResolve(rawUrl, base) ==
    /\ Len(base) >= 2
    /\ Head(base) \in {"http://", "https://"}
    /\ Len(rawUrl) > 0
    /\ Head(rawUrl) \in {"/p/", "/img/", "/question/"}

\* new URL(rawUrl, base) succeeds whatever the base: rawUrl is absolute
ParsesAlone(rawUrl) == Len(rawUrl) > 0 /\ Head(rawUrl) \in {"HTTP://", "mailto:"}

\* the href of an absolute rawUrl: the scheme in lower case
AbsoluteHref(rawUrl) ==
    IF Head(rawUrl) = "HTTP://" THEN <<"http://">> \o Tail(rawUrl) ELSE rawUrl

\* every url resolved against the base, an absolute one included
normalizeUrl_AlwaysResolve(rawUrl, base) ==
    IF rawUrl = <<>> THEN <<>>
    ELSE IF StartsWith(rawUrl, "data:") THEN rawUrl
    ELSE IF StartsWith(rawUrl, "//") THEN <<WindowLocationProtocolSlashes>> \o Tail(rawUrl)
    ELSE IF Len(base) >= 2 THEN <<base[1], base[2]>> \o rawUrl
    ELSE rawUrl

normalizeUrl(rawUrl, base) ==
    IF rawUrl = <<>> THEN <<>>
    ELSE IF StartsWith(rawUrl, "data:") THEN rawUrl
    ELSE IF StartsWith(rawUrl, "//") THEN <<WindowLocationProtocolSlashes>> \o Tail(rawUrl)
    ELSE IF StartsWith(rawUrl, "http://") \/ StartsWith(rawUrl, "https://") THEN rawUrl
    ELSE IF ParsesAlone(rawUrl) THEN AbsoluteHref(rawUrl)
    ELSE IF CanResolve(rawUrl, base) THEN <<base[1], base[2]>> \o rawUrl
    ELSE rawUrl

\* rawUrl.startsWith is not a function when a truthy rawUrl is not a string
normalizeUrlThrows(v) == v.t = "num"

MsPerDay == 86400000

\* dateInput < 1e12, written so that every intermediate value fits 32 bits
Below1e12(n) == (n \div 1000000) < 1000000

\* the day of new Date(dateInput) after `if (dateInput < 1e12) dateInput *= 1000`;
\* (n * 1000) \div MsPerDay is computed as n \div (MsPerDay \div 1000), which is the
\* same number and fits 32 bits
DayOfNumber(n) ==
    <<(IF Below1e12(n) THEN n \div (MsPerDay \div 1000) ELSE n \div MsPerDay)>>

parseIsoDate(value) ==
    CASE value.t = "undef"  -> <<>>
      [] value.t = "digits" -> DayOfNumber(value.n)
      [] value.t = "num"    -> DayOfNumber(value.n)
      [] value.t = "iso"    -> <<value.day>>
      [] OTHER              -> <<>>

DateTruthy(value) ==
    CASE value.t = "undef" -> FALSE
      [] value.t = "num"   -> value.n # 0
      [] OTHER             -> TRUE

\* a || b || ... over a list of date-valued fields: the first truthy one, else the last
RECURSIVE FirstTruthyDate(_)
FirstTruthyDate(ds) ==
    IF Len(ds) = 0 THEN Undef
    ELSE IF Len(ds) = 1 \/ DateTruthy(Head(ds)) THEN Head(ds)
    ELSE FirstTruthyDate(Tail(ds))

\* a || b || ... || dflt over a list of texts
RECURSIVE FirstText(_, _)
FirstText(ts, dflt) ==
    IF Len(ts) = 0 THEN dflt
    ELSE IF Head(ts) # "" THEN Head(ts)
    ELSE FirstText(Tail(ts), dflt)

\* An HTML string of a JSON response: NoHtml when the field is missing or is not a
\* string, otherwise a string: empty says it is '', blank that it is empty after
\* trim, text is the length of its trimmed text content, more that it holds a
\* read-more marker, imgs its <img> elements
NoHtml == [t |-> "undef"]
Html(empty, blank, text, more, images) ==
    [t |-> "str", empty |-> empty, blank |-> blank, text |-> text,
     more |-> more, imgs |-> images]

\* An element: owner is "document" for a node of a parsed (cached) document and
\* "fresh" for a container created by document.createElement
Node(owner, text, more, images) ==
    [k |-> "node", owner |-> owner, text |-> text, more |-> more, imgs |-> images]

buildContentElementFromHtml(html) ==
    IF html.t # "str" \/ html.empty THEN NoNode
    ELSE Node("fresh", html.text, html.more, html.imgs)

\* item && typeof item.content === 'string' && item.content.trim()
HasContentString(item) == item.content.t = "str" /\ ~item.content.blank

Min(S) == CHOOSE x \in S : \A y \in S : x <= y

\* entities is the list of the object's buckets in Object.keys order, a bucket the
\* list of its entities in Object.values order
tryBuckets(entities, key) ==
    LET bs == {i \in 1..Len(entities) : entities[i].key = key} IN
    IF bs = {} THEN Null
    ELSE LET bucket == entities[Min(bs)].items
             cand   == {j \in 1..Len(bucket) : HasContentString(bucket[j])}
         IN IF cand = {} THEN Null
            ELSE [k |-> "found", key |-> key, entity |-> bucket[Min(cand)]]

RECURSIVE FirstBucket(_, _)
FirstBucket(entities, keys) ==
    IF Len(keys) = 0 THEN Null
    ELSE LET found == tryBuckets(entities, Head(keys)) IN
         IF found # Null THEN found ELSE FirstBucket(entities, Tail(keys))

InSeq(x, s) == \E i \in 1..Len(s) : s[i] = x

RECURSIVE OtherKeys(_, _)
OtherKeys(entities, preferredKeys) ==
    IF Len(entities) = 0 THEN <<>>
    ELSE (IF InSeq(Head(entities).key, preferredKeys) THEN <<>> ELSE <<Head(entities).key>>)
         \o OtherKeys(Tail(entities), preferredKeys)

\* the buckets tried in the order of Object.keys alone
findEntityWithContent_KeyOrder(entities, preferredKeys) ==
    FirstBucket(entities, [i \in 1..Len(entities) |-> entities[i].key])

findEntityWithContent(entities, preferredKeys) ==
    LET found == FirstBucket(entities, preferredKeys) IN
    IF found # Null THEN found
    ELSE FirstBucket(entities, OtherKeys(entities, preferredKeys))

PreferredKeys == <<"articles", "answers", "posts", "zvideos">>

Throw == [k |-> "throw"]

\* url of the record built from entity, found in bucket key
EntityUrl(key, entity, fallbackUrl) ==
    IF Truthy(entity.url) THEN normalizeUrl(entity.url.s, WindowLocationHref)
    ELSE IF entity.id # "" /\ key = "articles"
    THEN normalizeUrl(ArticleUrl(entity.id), WindowLocationHref)
    ELSE IF entity.id # "" /\ key = "answers" /\ entity.questionId # ""
    THEN normalizeUrl(<<"https://", "www.zhihu.com", "/question/", entity.questionId,
                        "/answer/", entity.id>>, WindowLocationHref)
    ELSE normalizeUrl(fallbackUrl, WindowLocationHref)

\* extractFromInitialData from the entity found on: the record, null when no
\* element can be built, or the TypeError of normalizeUrl(entity.url)
EntityRecord(key, entity, stateTitle, fallbackUrl) ==
    IF buildContentElementFromHtml(entity.content) = NoNode THEN Null
    ELSE IF Truthy(entity.url) /\ normalizeUrlThrows(entity.url) THEN Throw
    ELSE [k |-> "rec",
          title |-> FirstText(<<entity.title, entity.questionTitle, stateTitle>>, ""),
          author |-> FirstText(entity.authors, ""),
          date |-> parseIsoDate(FirstTruthyDate(entity.dates)),
          url |-> EntityUrl(key, entity, fallbackUrl),
          content |-> buildContentElementFromHtml(entity.content)]

RecordOfFound(found, stateTitle, fallbackUrl) ==
    IF found = Null THEN Null
    ELSE EntityRecord(found.key, found.entity, stateTitle, fallbackUrl)

\* doc.initialData: [t |-> "none"] no #js-initialData script or no text in it,
\* [t |-> "bad"] text that JSON.parse rejects, [t |-> "json", ...] a parsed state
extractFromInitialData(doc, fallbackUrl) ==
    IF doc.initialData.t # "json" THEN Null
    ELSE IF ~doc.initialData.hasEntities THEN Null
    ELSE RecordOfFound(findEntityWithContent(doc.initialData.entities, PreferredKeys),
                       doc.initialData.title, fallbackUrl)

MinTextLength == 200

\* getArticleDate: the first YYYY-MM-DD of the element's text
getArticleDate(timeText) == IF timeText.t = "iso" THEN <<timeText.day>> ELSE <<>>

\* doc.querySelector('div.Post-RichTextContainer') || doc.querySelector('div.RichContent-inner')
DomContent(doc) == IF doc.richText # NoNode THEN doc.richText ELSE doc.richInner

DomTitle(doc) == FirstText(doc.titles, "Untitled")

DomAuthor(doc) == FirstText(doc.authors, "Unknown")

DomDate(doc) ==
    LET d1 == IF DateTruthy(doc.datePublished) THEN parseIsoDate(doc.datePublished) ELSE <<>>
        d2 == IF d1 # <<>> THEN d1
              ELSE IF DateTruthy(doc.dateModified) THEN parseIsoDate(doc.dateModified)
              ELSE <<>>
    IN IF d2 # <<>> THEN d2 ELSE getArticleDate(doc.timeText)

DomCanonicalUrl(doc, url) == IF doc.metaUrl # <<>> THEN doc.metaUrl ELSE url

\* the length test alone, a read-more marker ignored
shouldUseFallback_LengthOnly(content) ==
    IF content = NoNode THEN TRUE ELSE content.text < MinTextLength

shouldUseFallback(content) ==
    IF content = NoNode THEN TRUE
    ELSE IF content.text < MinTextLength THEN TRUE
    ELSE content.more

OrUrl(a, b) == IF a # <<>> THEN a ELSE b

\* the embedded state's record taken whole, its empty fields included
Overlay_Wholesale(doc, url, fallback) ==
    IF fallback = Throw THEN Throw
    ELSE IF fallback = Null
    THEN IF DomContent(doc) = NoNode THEN Null
         ELSE [k |-> "rec", title |-> DomTitle(doc), content |-> DomContent(doc),
               author |-> DomAuthor(doc), date |-> DomDate(doc),
               url |-> normalizeUrl(OrUrl(DomCanonicalUrl(doc, url), url),
                                    WindowLocationHref)]
    ELSE [k |-> "rec", title |-> fallback.title, content |-> fallback.content,
          author |-> fallback.author, date |-> fallback.date,
          url |-> normalizeUrl(OrUrl(fallback.url, url), WindowLocationHref)]

\* lines 505-522: the fields of fallback that are truthy replace the DOM's
Overlay(doc, url, fallback) ==
    IF fallback = Throw THEN Throw
    ELSE IF fallback = Null
    THEN IF DomContent(doc) = NoNode THEN Null
         ELSE [k |-> "rec", title |-> DomTitle(doc), content |-> DomContent(doc),
               author |-> DomAuthor(doc), date |-> DomDate(doc),
               url |-> normalizeUrl(OrUrl(DomCanonicalUrl(doc, url), url),
                                    WindowLocationHref)]
    ELSE [k |-> "rec",
          title |-> IF fallback.title # "" THEN fallback.title ELSE DomTitle(doc),
          content |-> IF fallback.content # NoNode THEN fallback.content
                      ELSE DomContent(doc),
          author |-> IF fallback.author # "" THEN fallback.author ELSE DomAuthor(doc),
          date |-> IF fallback.date # <<>> THEN fallback.date ELSE DomDate(doc),
          url |-> normalizeUrl(
                      OrUrl(OrUrl(fallback.url, DomCanonicalUrl(doc, url)), url),
                      WindowLocationHref)]

\* the record, Null or Throw that extractContentFromDocument(doc, url) ends with
extractContentFromDocument(doc, url) ==
    Overlay(doc, url,
            IF shouldUseFallback(DomContent(doc))
            THEN extractFromInitialData(doc, OrUrl(DomCanonicalUrl(doc, url), url))
            ELSE Null)

Digits == {"101", "102", "103", "104", "105", "7", "8"}

\* normalized.match(/\/p\/(\d+)/)?.[1] || ''
extractZhihuArticleId(url) ==
    LET normalized == normalizeUrl(url, WindowLocationHref)
        hits == {i \in 1..(Len(normalized) - 1) :
                    normalized[i] = "/p/" /\ normalized[i + 1] \in Digits}
    IN IF url = <<>> \/ hits = {} THEN "" ELSE normalized[Min(hits) + 1]

ApiUrl(articleId) == <<"https://", "www.zhihu.com", "/api/v4/articles/", articleId, "?include">>

\* a record built from whatever the response holds as content
ApiRecord_AnyContent(data, articleId) ==
    IF Truthy(data.url) /\ normalizeUrlThrows(data.url) THEN Throw
    ELSE [k |-> "rec",
          title |-> data.title,
          author |-> data.authorName,
          date |-> parseIsoDate(FirstTruthyDate(data.dates)),
          url |-> normalizeUrl(IF Truthy(data.url) THEN data.url.s
                               ELSE ArticleUrl(articleId),
                               WindowLocationHref),
          content |-> buildContentElementFromHtml(data.content)]

\* the try block of fetchZhihuArticleDetailsByApi once fetchJson has resolved with
\* data: the record, null, or the TypeError of normalizeUrl(data.url)
ApiRecord(data, articleId) ==
    IF data.content.t # "str" \/ data.content.blank THEN Null
    ELSE IF buildContentElementFromHtml(data.content) = NoNode THEN Null
    ELSE IF Truthy(data.url) /\ normalizeUrlThrows(data.url) THEN Throw
    ELSE [k |-> "rec",
          title |-> data.title,
          author |-> data.authorName,
          date |-> parseIsoDate(FirstTruthyDate(data.dates)),
          url |-> normalizeUrl(IF Truthy(data.url) THEN data.url.s
                               ELSE ArticleUrl(articleId),
                               WindowLocationHref),
          content |-> buildContentElementFromHtml(data.content)]

\* catch (error) { logWarn('API fallback failed:', error); return null; }
ByApiCatch_Rethrow(outcome) == outcome

ByApiCatch(outcome) == IF outcome = Throw THEN Null ELSE outcome

----------------------------------------------------------------------------
(* GM_xmlhttpRequest and fetchDocument / fetchJson *)

\* response.status >= 200 && response.status < 400
StatusOk(st) == st >= 200 /\ st < 400

OkStatuses  == {200, 304, 399}
BadStatuses == {199, 400, 404, 500}

\* a GM_xmlhttpRequest call: every call site passes method: 'GET'
Request(kind, url, who) == [method |-> "GET", kind |-> kind, url |-> url, who |-> who]

Put(map, key, val) == [x \in DOMAIN map \cup {key} |-> IF x = key THEN val ELSE map[x]]

NoMessage  == [kind |-> "none", pos |-> 0, total |-> 0]
NoBody     == [t |-> "none"]
NoDoc      == [k |-> "none"]
FailedDoc  == [k |-> "failed"]
\* fetchDocument resolved with d: from the cache (hit) or from a response whose
\* text detectZhihuBlockPage classified as blocked (logged only)
GotDoc(d, hit, blocked) == [k |-> "doc", doc |-> d, hit |-> hit, blocked |-> blocked]

\* response.responseText, by the patterns detectZhihuBlockPage looks for in it
ResponseText(security, login) == [security |-> security, login |-> login]

ResponseTexts == {ResponseText(s, l) : s \in BOOLEAN, l \in BOOLEAN}

\* a page with none of the patterns
CleanTexts == {ResponseText(FALSE, FALSE)}

detectZhihuBlockPage(htmlText) ==
    IF htmlText.security THEN "SECURITY_CHECK"
    ELSE IF htmlText.login THEN "LOGIN_REQUIRED"
    ELSE ""

\* fetchZhihuArticleDetailsByApi(rurl) up to its first await, entered with the
\* requests net0 in flight
StartApiFor(articleId, log, net0) ==
    /\ rlog' = log \o <<"api">>
    /\ rapi' = NoBody
    /\ IF articleId = "" \/ normalizeUrl(ApiUrl(articleId), WindowLocationHref) = <<>>
       THEN /\ rpc' = "done"
            /\ rres' = Null
            /\ net' = net0
            /\ requests' = requests
       ELSE /\ rpc' = "awaitApi"
            /\ rres' = rres
            /\ net' = net0 \cup {Request("json", normalizeUrl(ApiUrl(articleId),
                                                             WindowLocationHref), 0)}
            /\ requests' = requests + 1

StartApi(log, net0) == StartApiFor(extractZhihuArticleId(rurl), log, net0)

\* the embedded state read ahead of the DOM
ExtractionLog_StateFirst(doc) ==
    (IF shouldUseFallback(DomContent(doc)) THEN <<"state">> ELSE <<>>) \o <<"dom">>

\* the strategies extractContentFromDocument runs on doc, in execution order
ExtractionLog(doc) ==
    <<"dom">> \o (IF shouldUseFallback(DomContent(doc)) THEN <<"state">> ELSE <<>>)

\* extracted?.content: a record always carries an element, which is truthy
HasContent(extracted) == extracted.k = "rec" /\ extracted.content # NoNode

\* fetchZhihuArticleDetails after extractContentFromDocument, to its next await
AfterExtraction(extracted, log2, net0) ==
    IF HasContent(extracted)
    THEN /\ rpc' = "done"
         /\ rres' = extracted
         /\ rlog' = log2
         /\ rapi' = NoBody
         /\ net' = net0
         /\ requests' = requests
    ELSE StartApi(log2, net0)

\* fetchZhihuArticleDetails from the resolution of fetchDocument to its next await
AfterDocument(doc, log, net0) ==
    AfterExtraction(extractContentFromDocument(doc, rurl), log \o ExtractionLog(doc), net0)

\* fetchDocument without the look-up in fetchedDocumentCache
ResolveCall_NoCacheLookup ==
    /\ rpc = "call"
    /\ IF normalizeUrl(rurl, WindowLocationHref) = <<>>
       THEN /\ rdoc' = FailedDoc
            /\ StartApi(rlog, net)
       ELSE /\ rpc' = "awaitDoc"
            /\ net' = net \cup {Request("doc", normalizeUrl(rurl, WindowLocationHref), 0)}
            /\ requests' = requests + 1
            /\ UNCHANGED <<rdoc, rres, rlog, rapi>>
    /\ UNCHANGED <<rurl, fetchedDocumentCache, imageDataCache, batchVars, inlineVars>>
    /\ UNCHANGED <<helperVars, pageVars>>

\* fetchZhihuArticleDetails(rurl) up to its first await
ResolveCall ==
    /\ rpc = "call"
    /\ LET normalizedUrl == normalizeUrl(rurl, WindowLocationHref) IN
       IF normalizedUrl = <<>>
       THEN /\ rdoc' = FailedDoc
            /\ StartApi(rlog, net)
            /\ UNCHANGED fetchedDocumentCache
       ELSE IF normalizedUrl \in DOMAIN fetchedDocumentCache
       THEN /\ rdoc' = GotDoc(fetchedDocumentCache[normalizedUrl], TRUE, "")
            /\ AfterDocument(fetchedDocumentCache[normalizedUrl], rlog, net)
            /\ UNCHANGED fetchedDocumentCache
       ELSE /\ rpc' = "awaitDoc"
            /\ net' = net \cup {Request("doc", normalizedUrl, 0)}
            /\ requests' = requests + 1
            /\ UNCHANGED <<fetchedDocumentCache, rdoc, rres, rlog, rapi>>
    /\ UNCHANGED <<rurl, imageDataCache, batchVars, inlineVars>>
    /\ UNCHANGED <<helperVars, pageVars>>

\* a page classified as blocked is neither cached nor read
DocLoad_RejectBlocked(pool, texts) ==
    /\ rpc = "awaitDoc"
    /\ \E req \in net, st \in OkStatuses, doc \in pool, text \in texts :
        /\ req.kind = "doc"
        /\ StatusOk(st)
        /\ rdoc' = GotDoc(doc, FALSE, detectZhihuBlockPage(text))
        /\ IF detectZhihuBlockPage(text) = ""
           THEN /\ fetchedDocumentCache' = Put(fetchedDocumentCache, req.url, doc)
                /\ AfterDocument(doc, rlog, net \ {req})
           ELSE /\ fetchedDocumentCache' = fetchedDocumentCache
                /\ StartApi(rlog, net \ {req})
    /\ UNCHANGED <<rurl, imageDataCache, batchVars, inlineVars>>
    /\ UNCHANGED <<helperVars, pageVars>>

\* fetchDocument's onload with a status in [200,400): classify the text (a
\* warning only), parse, cache, resolve
DocLoad(pool, texts) ==
    /\ rpc = "awaitDoc"
    /\ \E req \in net, st \in OkStatuses, doc \in pool, text \in texts :
        /\ req.kind = "doc"
        /\ StatusOk(st)
        /\ fetchedDocumentCache' = Put(fetchedDocumentCache, req.url, doc)
        /\ rdoc' = GotDoc(doc, FALSE, detectZhihuBlockPage(text))
        /\ AfterDocument(doc, rlog, net \ {req})
    /\ UNCHANGED <<rurl, imageDataCache, batchVars, inlineVars>>
    /\ UNCHANGED <<helperVars, pageVars>>

\* a failed document request that is issued again
DocFail_Retry ==
    /\ rpc = "awaitDoc"
    /\ \E req \in net, st \in BadStatuses \cup {0} :
        /\ req.kind = "doc"
        /\ ~StatusOk(st)
        /\ net' = net
        /\ requests' = requests + 1
    /\ UNCHANGED <<rpc, rurl, rdoc, rres, rlog, rapi, fetchedDocumentCache,
                   imageDataCache, batchVars, inlineVars>>
    /\ UNCHANGED <<helperVars, pageVars>>

\* fetchDocument's onload with another status, or its onerror: reject
DocFail ==
    /\ rpc = "awaitDoc"
    /\ \E req \in net, st \in BadStatuses \cup {0} :
        /\ req.kind = "doc"
        /\ ~StatusOk(st)
        /\ rdoc' = FailedDoc
        /\ StartApi(rlog, net \ {req})
    /\ UNCHANGED <<rurl, fetchedDocumentCache, imageDataCache, batchVars, inlineVars>>
    /\ UNCHANGED <<helperVars, pageVars>>

\* fetchJson's onload with a status in [200,400): body is the parsed JSON or
\* [t |-> "bad"] when safeParseJSON gives null (fetchJson rejects, the catch of
\* fetchZhihuArticleDetailsByApi returns null)
ApiLoad(pool) ==
    /\ rpc = "awaitApi"
    /\ \E req \in net, st \in OkStatuses, body \in pool :
        /\ req.kind = "json"
        /\ StatusOk(st)
        /\ net' = net \ {req}
        /\ rapi' = body
        /\ rres' = ByApiCatch(IF body.t = "bad" THEN Throw
                              ELSE ApiRecord(body, extractZhihuArticleId(rurl)))
    /\ rpc' = "done"
    /\ UNCHANGED <<rurl, rdoc, rlog, requests, fetchedDocumentCache, imageDataCache,
                   batchVars, inlineVars>>
    /\ UNCHANGED <<helperVars, pageVars>>

\* fetchJson's onload with another status, or its onerror
ApiFail ==
    /\ rpc = "awaitApi"
    /\ \E req \in net, st \in BadStatuses \cup {0} :
        /\ req.kind = "json"
        /\ ~StatusOk(st)
        /\ net' = net \ {req}
    /\ rres' = ByApiCatch(Throw)
    /\ rpc' = "done"
    /\ UNCHANGED <<rurl, rdoc, rlog, rapi, requests, fetchedDocumentCache, imageDataCache,
                   batchVars, inlineVars>>
    /\ UNCHANGED <<helperVars, pageVars>>

\* A request that ends in a timeout or an abort: the calls pass GM_xmlhttpRequest
\* only onload and onerror, so no callback runs and the promise stays pending
RequestUnhandled ==
    /\ \E req \in net : net' = net \ {req}
    /\ UNCHANGED <<requests, fetchedDocumentCache, imageDataCache, resolverVars,
                   batchVars, inlineVars>>
    /\ UNCHANGED <<helperVars, pageVars>>

----------------------------------------------------------------------------
(* Image inlining: fetchImageAsDataUrl and convertImagesToDataUrls *)

\* an <img>: the attributes the inliner reads or writes; <<>> and "" stand for an
\* attribute that is absent or empty
Img(src, srcset, dataOriginal, dataSrc, dataActualsrc) ==
    [src |-> src, srcset |-> srcset, dataOriginal |-> dataOriginal,
     dataSrc |-> dataSrc, dataActualsrc |-> dataActualsrc]

\* img.getAttribute('src') || 'data-original' || 'data-src' || 'data-actualsrc'
ImgSource(img) ==
    OrUrl(OrUrl(OrUrl(img.src, img.dataOriginal), img.dataSrc), img.dataActualsrc)

IsDataUrl(u) == StartsWith(u, "data:")

\* fetchImageAsDataUrl resolves at once, without a request: lines 567-575
ResolvesAtOnce_NoDataShortcut(normalized) ==
    normalized = <<>> \/ normalized \in DOMAIN imageDataCache

ResolvesAtOnce(normalized) ==
    \/ normalized = <<>>
    \/ IsDataUrl(normalized)
    \/ normalized \in DOMAIN imageDataCache

\* the value it then resolves with
ValueAtOnce(normalized) ==
    IF normalized = <<>> THEN <<>>
    ELSE IF IsDataUrl(normalized) THEN normalized
    ELSE imageDataCache[normalized]

\* if (dataUrl) { img.setAttribute('src', dataUrl); img.removeAttribute('srcset'); }
Embed(img, dataUrl) ==
    IF dataUrl = <<>> THEN img ELSE [img EXCEPT !.src = dataUrl, !.srcset = ""]

NormalizedSource(img) == normalizeUrl(ImgSource(img), ibase)

\* the map callback of image i needs a request
NeedsRequest(i) == ImgSource(imgs[i]) # <<>> /\ ~ResolvesAtOnce(NormalizedSource(imgs[i]))

\* every map callback has returned, from its try ("done") or its catch ("failed")
AllDone(pcs) == \A i \in 1..Len(pcs) : pcs[i] \in {"done", "failed"}

\* convertImagesToDataUrls(root, baseUrl) up to the await of Promise.all: every
\* callback runs to its own await, the ones whose promise is already resolved
\* continue before any response arrives
ConvertCall ==
    /\ cpc = "call"
    /\ ipc' = [i \in 1..Len(imgs) |-> IF NeedsRequest(i) THEN "await" ELSE "done"]
    /\ imgs' = [i \in 1..Len(imgs) |->
                  IF ImgSource(imgs[i]) = <<>> \/ NeedsRequest(i) THEN imgs[i]
                  ELSE Embed(imgs[i], ValueAtOnce(NormalizedSource(imgs[i])))]
    /\ net' = net \cup {Request("img", NormalizedSource(imgs[i]), i) :
                          i \in {j \in 1..Len(imgs) : NeedsRequest(j)}}
    /\ requests' = requests + Cardinality({j \in 1..Len(imgs) : NeedsRequest(j)})
    /\ cpc' = IF \A i \in 1..Len(imgs) : ~NeedsRequest(i) THEN "done" ELSE "await"
    /\ UNCHANGED <<ibase, imgOrig, fetchedDocumentCache, imageDataCache, resolverVars,
                   batchVars>>
    /\ UNCHANGED <<helperVars, pageVars>>

\* `data:${contentType};base64,${base64}`
DataUrl(resp) ==
    <<"data:", IF resp.ctype = "" THEN "application/octet-stream" ELSE resp.ctype,
      ";base64,", resp.b64>>

ImageResponses == {[ctype |-> "image/png", b64 |-> "QUJD"], [ctype |-> "", b64 |-> ""]}

\* onload of an image request with a status in [200,400), then the rest of the
\* callback of its image
ImgLoad ==
    /\ cpc = "await"
    /\ \E req \in net, st \in OkStatuses, resp \in ImageResponses :
        /\ req.kind = "img"
        /\ StatusOk(st)
        /\ net' = net \ {req}
        /\ imageDataCache' = Put(imageDataCache, req.url, DataUrl(resp))
        /\ imgs' = [imgs EXCEPT ![req.who] = Embed(@, DataUrl(resp))]
        /\ ipc' = [ipc EXCEPT ![req.who] = "done"]
        /\ cpc' = IF AllDone([ipc EXCEPT ![req.who] = "done"]) THEN "done" ELSE "await"
    /\ UNCHANGED <<ibase, imgOrig, requests, fetchedDocumentCache, resolverVars, batchVars>>
    /\ UNCHANGED <<helperVars, pageVars>>

\* a failed fetch that blanks the src of its image
ImgFail_ClearsSource ==
    /\ cpc = "await"
    /\ \E req \in net, st \in BadStatuses \cup {0} :
        /\ req.kind = "img"
        /\ ~StatusOk(st)
        /\ net' = net \ {req}
        /\ imgs' = [imgs EXCEPT ![req.who].src = <<>>]
        /\ ipc' = [ipc EXCEPT ![req.who] = "failed"]
        /\ cpc' = IF AllDone([ipc EXCEPT ![req.who] = "failed"]) THEN "done" ELSE "await"
    /\ UNCHANGED <<ibase, imgOrig, requests, fetchedDocumentCache, imageDataCache,
                   resolverVars, batchVars>>
    /\ UNCHANGED <<helperVars, pageVars>>

\* onload with another status, or onerror: the callback's catch logs and returns
ImgFail ==
    /\ cpc = "await"
    /\ \E req \in net, st \in BadStatuses \cup {0} :
        /\ req.kind = "img"
        /\ ~StatusOk(st)
        /\ net' = net \ {req}
        /\ ipc' = [ipc EXCEPT ![req.who] = "failed"]
        /\ cpc' = IF AllDone([ipc EXCEPT ![req.who] = "failed"]) THEN "done" ELSE "await"
    /\ UNCHANGED <<ibase, imgs, imgOrig, requests, fetchedDocumentCache, imageDataCache,
                   resolverVars, batchVars>>
    /\ UNCHANGED <<helperVars, pageVars>>

----------------------------------------------------------------------------
(* The batch loop of downloadZhihuListArticles *)

Pending == "pending"

Message(kind, pos, total) == [kind |-> kind, pos |-> pos, total |-> total]

\* catch (error) of the loop body, lines 923-927
SkipEntry_Abort(i) ==
    /\ status' = [status EXCEPT ![i] = "skipped"]
    /\ progress' = Message("error", 0, 0)
    /\ bpc' = "done"

SkipEntry(i) ==
    /\ status' = [status EXCEPT ![i] = "skipped"]
    /\ progress' = Message("skip", processed + 1, Len(entries))
    /\ bpc' = "sleep"

\* a || b over texts
OrText(a, b) == IF a # "" THEN a ELSE b
OrDate(a, b) == IF a # <<>> THEN a ELSE b

\* lines 913-916
FinalRecord(article, entry) ==
    [title |-> OrText(OrText(article.title, entry.title), "Article"),
     author |-> OrText(OrText(article.author, entry.author), "Unknown"),
     date |-> OrDate(article.date, entry.date),
     url |-> OrUrl(article.url, entry.url),
     content |-> article.content]

\* the entries autoCollectEntries returns: at most MaxEntries entries with
\* distinct normalized urls
EntryIds == <<"101", "102", "103", "104", "105">>
EntryAt(i) == [url |-> ArticleUrl(EntryIds[i]), title |-> "ListTitle",
               author |-> "Unknown", date |-> <<>>]

\* lines 893-901, with the outcome of autoCollectEntries
CollectEntries ==
    /\ bpc = "start"
    /\ \E n \in 0..MaxEntries :
        /\ entries' = [i \in 1..n |-> EntryAt(i)]
        /\ status' = [i \in 1..n |-> Pending]
        /\ IF n = 0
           THEN progress' = Message("error", 0, 0) /\ bpc' = "done"
           ELSE progress' = Message("prepare", 0, n) /\ bpc' = "loop"
    /\ idx' = 1
    /\ UNCHANGED <<processed, saved, remote, net, requests, fetchedDocumentCache,
                   imageDataCache, resolverVars, inlineVars>>
    /\ UNCHANGED <<helperVars, pageVars>>

\* a mutant: the loop body is started for every remaining entry at once
StartEntry_NoAwait ==
    /\ bpc = "loop"
    /\ idx <= Len(entries)
    /\ progress' = Message("fetching", processed + 1, Len(entries))
    /\ status' = [i \in 1..Len(entries) |-> IF i >= idx THEN "resolving" ELSE status[i]]
    /\ rpc' = "call"
    /\ rurl' = entries[idx].url
    /\ rdoc' = NoDoc
    /\ rres' = Null
    /\ rlog' = <<>>
    /\ rapi' = NoBody
    /\ bpc' = "awaitResolve"
    /\ UNCHANGED <<entries, idx, processed, saved, remote, net, requests,
                   fetchedDocumentCache, imageDataCache, inlineVars>>
    /\ UNCHANGED <<helperVars, pageVars>>

\* the head of one iteration: lines 904-908 up to the call of the resolver
StartEntry ==
    /\ bpc = "loop"
    /\ idx <= Len(entries)
    /\ progress' = Message("fetching", processed + 1, Len(entries))
    /\ status' = [status EXCEPT ![idx] = "resolving"]
    /\ rpc' = "call"
    /\ rurl' = entries[idx].url
    /\ rdoc' = NoDoc
    /\ rres' = Null
    /\ rlog' = <<>>
    /\ rapi' = NoBody
    /\ bpc' = "awaitResolve"
    /\ UNCHANGED <<entries, idx, processed, saved, remote, net, requests,
                   fetchedDocumentCache, imageDataCache, inlineVars>>
    /\ UNCHANGED <<helperVars, pageVars>>

\* lines 909-918 up to the await inside processContent (its clone is not the
\* element of the record)
AfterResolve ==
    /\ bpc = "awaitResolve"
    /\ rpc = "done"
    /\ rpc' = "idle"
    /\ IF rres.k # "rec" \/ rres.content = NoNode
       THEN /\ SkipEntry(idx)
            /\ UNCHANGED <<remote, inlineVars>>
       ELSE /\ remote' = FinalRecord(rres, entries[idx])
            /\ status' = [status EXCEPT ![idx] = "converting"]
            /\ ibase' = OrUrl(rres.url, entries[idx].url)
            /\ imgs' = rres.content.imgs
            /\ imgOrig' = rres.content.imgs
            /\ ipc' = [i \in 1..Len(rres.content.imgs) |-> "idle"]
            /\ cpc' = "call"
            /\ bpc' = "awaitConvert"
            /\ UNCHANGED progress
    /\ UNCHANGED <<entries, idx, processed, saved, net, requests, fetchedDocumentCache,
                   imageDataCache, rurl, rdoc, rres, rlog, rapi>>
    /\ UNCHANGED <<helperVars, pageVars>>

\* processContent after convertImagesToDataUrls, then lines 919-922; the Markdown
\* conversion returns or throws
AfterConvert ==
    /\ bpc = "awaitConvert"
    /\ cpc = "done"
    /\ cpc' = "idle"
    /\ \E converted \in BOOLEAN :
        IF converted
        THEN /\ saved' = Append(saved, idx)
             /\ processed' = processed + 1
             /\ progress' = Message("downloaded", processed + 1, Len(entries))
             /\ status' = [status EXCEPT ![idx] = "saved"]
             /\ bpc' = "sleep"
        ELSE /\ SkipEntry(idx)
             /\ UNCHANGED <<saved, processed>>
    /\ UNCHANGED <<entries, idx, remote, ibase, imgs, imgOrig, ipc, net, requests,
                   fetchedDocumentCache, imageDataCache, resolverVars>>
    /\ UNCHANGED <<helperVars, pageVars>>

\* await sleep(400) or await sleep(200), then the next iteration
SleepDone ==
    /\ bpc = "sleep"
    /\ idx' = idx + 1
    /\ bpc' = "loop"
    /\ UNCHANGED <<entries, processed, status, saved, progress, remote, net, requests,
                   fetchedDocumentCache, imageDataCache, resolverVars, inlineVars>>
    /\ UNCHANGED <<helperVars, pageVars>>

\* line 930
Summary ==
    /\ bpc = "loop"
    /\ idx > Len(entries)
    /\ progress' = Message("summary", processed, Len(entries))
    /\ bpc' = "done"
    /\ UNCHANGED <<entries, idx, processed, status, saved, remote, net, requests,
                   fetchedDocumentCache, imageDataCache, resolverVars, inlineVars>>
    /\ UNCHANGED <<helperVars, pageVars>>

----------------------------------------------------------------------------
(* The pages, API responses and urls the checks draw from *)

AnswerUrl == <<"https://", "www.zhihu.com", "/question/", "7", "/answer/", "8">>

Doc(titles, richText, richInner, authors, datePublished, dateModified, timeText, metaUrl, initialData) ==
    [titles |-> titles, richText |-> richText, richInner |-> richInner,
     authors |-> authors, datePublished |-> datePublished,
     dateModified |-> dateModified, timeText |-> timeText, metaUrl |-> metaUrl,
     initialData |-> initialData]

Entity(content, title, questionTitle, authors, dates, url, id, questionId) ==
    [content |-> content, title |-> title, questionTitle |-> questionTitle,
     authors |-> authors, dates |-> dates, url |-> url, id |-> id,
     questionId |-> questionId]

Bucket(key, items) == [key |-> key, items |-> items]

NoInitialData  == [t |-> "none"]
BadInitialData == [t |-> "bad"]
InitialData(title, hasEntities, entities) ==
    [t |-> "json", title |-> title, hasEntities |-> hasEntities, entities |-> entities]

IsoDate(day) == [t |-> "iso", day |-> day]
NumDate(n)   == [t |-> "num", n |-> n]
DigitsDate(n) == [t |-> "digits", n |-> n]
JunkDate     == [t |-> "junk"]

StateHtml == Html(FALSE, FALSE, 900, FALSE, <<>>)
BlankHtml == Html(FALSE, TRUE, 0, FALSE, <<>>)
EmptyHtml == Html(TRUE, TRUE, 0, FALSE, <<>>)
ApiHtml   == Html(FALSE, FALSE, 700, FALSE, <<>>)

EntityPool ==
    {Entity(StateHtml, t, "", <<a, "", "">>, <<d, Undef>>, u.url, u.id, u.qid) :
        t \in {"", "StateTitle"}, a \in {"", "StateAuthor"},
        d \in {Undef, NumDate(172800)},
        u \in {[url |-> Str(ArticleUrl("103")), id |-> "101", qid |-> ""],
               [url |-> Num, id |-> "101", qid |-> ""],
               [url |-> Undef, id |-> "", qid |-> ""],
               [url |-> Undef, id |-> "102", qid |-> ""],
               [url |-> Undef, id |-> "8", qid |-> "7"]}}

PlainEntity(title) ==
    Entity(StateHtml, title, "", <<"", "", "">>, <<Undef, Undef>>, Undef, "", "")
\* an entity of the articles bucket with its id and no url
IdEntity(title, id) ==
    Entity(StateHtml, title, "", <<"", "", "">>, <<Undef, Undef>>, Undef, id, "")
HollowEntity ==
    Entity(BlankHtml, "Hollow", "", <<"", "", "">>, <<Undef, Undef>>, Undef, "", "")

InitialDataPool ==
    {NoInitialData, BadInitialData, InitialData("", FALSE, <<>>)}
    \cup {InitialData("", TRUE, <<Bucket(key, <<e>>)>>) :
            key \in {"articles", "answers"}, e \in EntityPool}
    \cup {InitialData("PageTitle", TRUE, <<Bucket("answers", <<PlainEntity("")>>)>>),
          InitialData("", TRUE, <<Bucket("pins", <<PlainEntity("Pin")>>),
                                  Bucket("posts", <<HollowEntity, PlainEntity("Post")>>)>>),
          InitialData("", TRUE, <<Bucket("articles", <<HollowEntity>>)>>),
          InitialData("", TRUE, <<Bucket("articles", <<IdEntity("Other", "101"),
                                                       IdEntity("Wanted", "102")>>)>>)}

DomNode(text, more) == Node("document", text, more, <<>>)

ContentPool ==
    {[richText |-> NoNode, richInner |-> NoNode],
     [richText |-> DomNode(0, FALSE), richInner |-> NoNode],
     [richText |-> DomNode(199, FALSE), richInner |-> NoNode],
     [richText |-> DomNode(200, FALSE), richInner |-> NoNode],
     [richText |-> DomNode(200, TRUE), richInner |-> NoNode],
     [richText |-> NoNode, richInner |-> DomNode(300, FALSE)]}

DocPool ==
    {Doc(t, c.richText, c.richInner, <<"", a, "">>, d.p, d.m, d.x, m, i) :
        t \in {<<"", "", "">>, <<"", "DomTitle", "TagTitle">>},
        c \in ContentPool,
        a \in {"", "DomAuthor"},
        d \in {[p |-> Undef, m |-> Undef, x |-> Undef],
               [p |-> JunkDate, m |-> DigitsDate(86400), x |-> IsoDate(5)]},
        m \in {<<>>, ArticleUrl("103")},
        i \in InitialDataPool}

ApiBody(content, title, authorName, dates, url) ==
    [t |-> "json", content |-> content, title |-> title, authorName |-> authorName,
     dates |-> dates, url |-> url]
BadBody == [t |-> "bad"]

ApiPool ==
    {BadBody}
    \cup {ApiBody(c, t, a, <<d, NumDate(259200)>>, u) :
            c \in {NoHtml, BlankHtml, ApiHtml},
            t \in {"", "ApiTitle"},
            a \in {"", "ApiAuthor"},
            d \in {Undef, IsoDate(9)},
            u \in {Undef, Str(<<"//", "zhuanlan.zhihu.com", "/p/", "101">>), Num}}

UrlPool == {ArticleUrl("101"), <<"/p/", "102">>, AnswerUrl, <<>>}

----------------------------------------------------------------------------
(* One call of fetchZhihuArticleDetails *)

InitCaches ==
    /\ fetchedDocumentCache = EmptyMap
    /\ imageDataCache = EmptyMap
    /\ net = {}
    /\ requests = 0

IdleResolver ==
    /\ rpc = "idle"
    /\ rurl = <<>>
    /\ rdoc = NoDoc
    /\ rres = Null
    /\ rlog = <<>>
    /\ rapi = NoBody

IdleBatch ==
    /\ bpc = "idle"
    /\ entries = <<>>
    /\ idx = 0
    /\ processed = 0
    /\ status = <<>>
    /\ saved = <<>>
    /\ progress = NoMessage
    /\ remote = Null

IdleInline ==
    /\ ibase = <<>>
    /\ imgs = <<>>
    /\ imgOrig = <<>>
    /\ ipc = <<>>
    /\ cpc = "idle"

IdleHelpers ==
    /\ fpc = "idle"
    /\ farg = <<>>
    /\ fval = <<>>

\* no showProgress call yet: the indicator element does not exist
IdleIndicator ==
    /\ calls = <<>>
    /\ shown = FALSE
    /\ timers = {}
    /\ now = 0

\* processContent is not running
IdleProcess ==
    /\ ppc = "idle"
    /\ contentElement = NoNode
    /\ clone = NoNode

\* autoCollectEntries is not running
IdleCollect ==
    /\ apc = "idle"
    /\ all = <<>>
    /\ idleRounds = 0
    /\ lastSize = 0
    /\ round = 0
    /\ dom = <<>>
    /\ page = [kind |-> "list", made |-> 0]
    /\ quiet = 0

\* the button has not been clicked
IdleRuns ==
    /\ locationHref = <<>>
    /\ runs = <<>>

IdlePage ==
    /\ IdleIndicator
    /\ IdleProcess
    /\ IdleCollect
    /\ IdleRuns

InitResolve ==
    /\ InitCaches
    /\ rpc = "call"
    /\ rurl \in UrlPool
    /\ rdoc = NoDoc
    /\ rres = Null
    /\ rlog = <<>>
    /\ rapi = NoBody
    /\ IdleBatch
    /\ IdleInline
    /\ IdleHelpers
    /\ IdlePage

NextResolve ==
    \/ ResolveCall
    \/ DocLoad(DocPool, CleanTexts)
    \/ DocFail
    \/ ApiLoad(ApiPool)
    \/ ApiFail
    \/ RequestUnhandled

SpecResolve == InitResolve /\ [][NextResolve]_vars

----------------------------------------------------------------------------
(* Content resolution: fetchZhihuArticleDetails *)

Rank(strategy) ==
    CASE strategy = "dom" -> 1 [] strategy = "state" -> 2 [] strategy = "api" -> 3

Before(a, j) == \E i \in 1..(j - 1) : rlog[i] = a

\* C1: within one resolution the strategies run in the order DOM extraction,
\* embedded-state extraction, API fallback: the embedded state is consulted only
\* after the DOM extraction, and the API only after both, or with both skipped
\* because the document fetch failed.
C1_StrategyOrder ==
    /\ \A i, j \in 1..Len(rlog) : i < j => Rank(rlog[i]) < Rank(rlog[j])
    /\ \A j \in 1..Len(rlog) :
        /\ rlog[j] = "state" => Before("dom", j)
        /\ rlog[j] = "api" =>
              \/ rdoc = FailedDoc /\ j = 1
              \/ rdoc.k = "doc" /\ Before("dom", j) /\ Before("state", j)

C1_Witness ==
    /\ rpc = "done"
    /\ rlog = <<"dom", "state", "api">>
    /\ rres.k = "rec"

\* the record the API response body stands for
ApiTitle(body)  == body.title
ApiAuthor(body) == body.authorName

\* C2: when the document fetch fails, the url holds a numeric article id and the
\* API answers JSON with a non-empty content string, the result is a non-null
\* record whose title, author, date and content are those of the API response.
C2_ApiRecordAfterFetchFailure ==
    (/\ rpc = "done"
     /\ rdoc = FailedDoc
     /\ extractZhihuArticleId(rurl) # ""
     /\ rapi.t = "json"
     /\ HasContentString(rapi))
    => /\ rres.k = "rec"
       /\ rres.title = ApiTitle(rapi)
       /\ rres.author = ApiAuthor(rapi)
       /\ rres.date = parseIsoDate(FirstTruthyDate(rapi.dates))
       /\ rres.content = buildContentElementFromHtml(rapi.content)
       /\ rres.url = normalizeUrl(IF Truthy(rapi.url) THEN rapi.url.s
                                ELSE ArticleUrl(extractZhihuArticleId(rurl)),
                                WindowLocationHref)

\* what the embedded state gives for the document the resolver fetched
FallbackOf(doc) == extractFromInitialData(doc, OrUrl(DomCanonicalUrl(doc, rurl), rurl))

OverlayCase ==
    /\ rpc = "done"
    /\ rdoc.k = "doc"
    /\ shouldUseFallback(DomContent(rdoc.doc))
    /\ FallbackOf(rdoc.doc).k = "rec"

\* C3: when the DOM extraction is insufficient and the embedded state gives a
\* record, each of title, author, date and url of the result is the embedded
\* state's value where that is non-empty and the DOM's value otherwise, and the
\* content is the embedded state's.
C3_FieldOverlay ==
    OverlayCase =>
        /\ rres.k = "rec"
        /\ rres.content = FallbackOf(rdoc.doc).content
        /\ rres.content.owner = "fresh"
        /\ rres.title = (IF FallbackOf(rdoc.doc).title = "" THEN DomTitle(rdoc.doc)
                         ELSE FallbackOf(rdoc.doc).title)
        /\ rres.author = (IF FallbackOf(rdoc.doc).author = "" THEN DomAuthor(rdoc.doc)
                          ELSE FallbackOf(rdoc.doc).author)
        /\ rres.date = (IF FallbackOf(rdoc.doc).date = <<>> THEN DomDate(rdoc.doc)
                        ELSE FallbackOf(rdoc.doc).date)
        /\ rres.url = (IF FallbackOf(rdoc.doc).url = <<>>
                       THEN normalizeUrl(OrUrl(DomCanonicalUrl(rdoc.doc, rurl), rurl),
                                         WindowLocationHref)
                       ELSE FallbackOf(rdoc.doc).url)

C3_Witness ==
    /\ OverlayCase
    /\ DomContent(rdoc.doc) # NoNode
    /\ FallbackOf(rdoc.doc).title = ""
    /\ FallbackOf(rdoc.doc).author # ""
    /\ rres.title = "DomTitle"
    /\ rres.author = "StateAuthor"
    /\ rres.content.text = 900

\* a content fragment the converter can use: present and not empty after trim
Usable(extracted) ==
    /\ extracted.k = "rec"
    /\ extracted.content # NoNode
    /\ extracted.content.text > 0

\* C4: when the document fetch succeeds and extraction with the overlay leaves no
\* usable content (no fragment, or a fragment that is empty after trim), the API
\* fallback is invoked before fetchZhihuArticleDetails returns.
C4_ApiWhenNoUsableContent ==
    (/\ rpc = "done"
     /\ rdoc.k = "doc"
     /\ ~Usable(extractContentFromDocument(rdoc.doc, rurl)))
    => InSeq("api", rlog)

\* C5: fetchZhihuArticleDetails never rejects: whatever the document fetch, the
\* extraction and the API do, it settles with a record or with null.
C5_NeverRaises == rpc = "done" => rres.k \in {"rec", "null"}

C5_Witness ==
    /\ rpc = "done"
    /\ rdoc.k = "doc"
    /\ extractContentFromDocument(rdoc.doc, rurl) = Throw
    /\ rapi.t = "bad"
    /\ rres = Null

----------------------------------------------------------------------------
(* The specifications of the image inliner and of the batch download *)

InlineImages ==
    {Img(<<"data:", "image/png", ";base64,", "QUJD">>, "", <<>>, <<>>, <<>>),
     Img(<<"data:", "image/png", ";base64,", "QUJD">>, "a.png 2x", <<>>, <<>>, <<>>),
     Img(<<"https://", "pic.zhimg.com", "/img/", "a.png">>, "a.png 2x", <<>>, <<>>, <<>>),
     Img(<<"//", "pic.zhimg.com", "/img/", "a.png">>, "", <<>>, <<>>, <<>>),
     Img(<<>>, "", <<"https://", "pic.zhimg.com", "/img/", "b.png">>, <<>>, <<>>),
     Img(<<>>, "", <<>>, <<"data:", "image/gif", ";base64,", "R0lG">>, <<>>),
     Img(<<>>, "b.png 2x", <<>>, <<>>, <<"/img/", "c.png">>),
     Img(<<"https://", "cdn.example.com", "/img/", "d.png">>, "", <<>>, <<>>, <<>>),
     Img(<<>>, "", <<>>, <<>>, <<>>)}

Fragments == UNION {[1..n -> InlineImages] : n \in 0..MaxImages}

InitInline ==
    /\ InitCaches
    /\ IdleResolver
    /\ IdleBatch
    /\ IdleHelpers
    /\ IdlePage
    /\ ibase = ArticleUrl("101")
    /\ imgs \in Fragments
    /\ imgOrig = imgs
    /\ ipc = [i \in 1..Len(imgs) |-> "idle"]
    /\ cpc = "call"

NextInline ==
    \/ ConvertCall
    \/ ImgLoad
    \/ ImgFail
    \/ RequestUnhandled

SpecInline == InitInline /\ [][NextInline]_vars

PageImage == Img(<<"//", "pic.zhimg.com", "/img/", "a.png">>, "a.png 2x", <<>>, <<>>, <<>>)

BatchDocs ==
    {Doc(<<"", "DomTitle", "">>, Node("document", 300, FALSE, <<PageImage>>), NoNode,
         <<"", "", "">>, Undef, Undef, Undef, <<>>, NoInitialData),
     Doc(<<"", "", "">>, NoNode, NoNode, <<"", "", "">>, Undef, Undef, Undef, <<>>,
         BadInitialData),
     Doc(<<"", "", "">>, DomNode(0, FALSE), NoNode, <<"", "", "">>, Undef, Undef, Undef,
         <<>>, NoInitialData)}

BatchApi ==
    {BadBody,
     ApiBody(Html(FALSE, FALSE, 700, FALSE, <<PageImage>>), "", "ApiAuthor",
             <<Undef, Undef>>, Undef)}

Init ==
    /\ InitCaches
    /\ IdleResolver
    /\ IdleInline
    /\ IdleHelpers
    /\ IdlePage
    /\ bpc = "start"
    /\ entries = <<>>
    /\ idx = 0
    /\ processed = 0
    /\ status = <<>>
    /\ saved = <<>>
    /\ progress = NoMessage
    /\ remote = Null

Next ==
    \/ CollectEntries
    \/ StartEntry
    \/ ResolveCall
    \/ DocLoad(BatchDocs, ResponseTexts)
    \/ DocFail
    \/ ApiLoad(BatchApi)
    \/ ApiFail
    \/ AfterResolve
    \/ ConvertCall
    \/ ImgLoad
    \/ ImgFail
    \/ AfterConvert
    \/ SleepDone
    \/ Summary
    \/ RequestUnhandled

Spec == Init /\ [][Next]_vars

\* the event loop runs every callback that is ready, every timer fires and every
\* request ends: with onload, with onerror, or with a timeout or an abort
Fairness ==
    /\ WF_vars(CollectEntries)
    /\ WF_vars(StartEntry)
    /\ WF_vars(ResolveCall)
    /\ WF_vars(DocLoad(BatchDocs, ResponseTexts) \/ DocFail \/ ApiLoad(BatchApi) \/ ApiFail
               \/ ImgLoad \/ ImgFail \/ RequestUnhandled)
    /\ WF_vars(AfterResolve)
    /\ WF_vars(ConvertCall)
    /\ WF_vars(AfterConvert)
    /\ WF_vars(SleepDone)
    /\ WF_vars(Summary)

LiveSpec == Spec /\ Fairness

----------------------------------------------------------------------------
(* Batch download and image inlining *)

Finished(i) == status[i] \in {"saved", "skipped"}

Skipped == {i \in 1..Len(status) : status[i] = "skipped"}

\* C6: a failed item never aborts the batch: when the loop ends every entry has
\* been saved or skipped, the saved documents are the entries minus the failed
\* ones, and the summary reports the number of saved documents.
C6_FailureIsolation ==
    (bpc = "done" /\ Len(entries) > 0) =>
        /\ \A i \in 1..Len(entries) : Finished(i)
        /\ Len(saved) = Len(entries) - Cardinality(Skipped)
        /\ \A i \in 1..Len(entries) : status[i] = "saved" <=> InSeq(i, saved)
        /\ progress = Message("summary", Len(saved), Len(entries))

C6_Witness ==
    /\ bpc = "done"
    /\ Len(entries) >= 2
    /\ status[1] = "skipped"
    /\ status[2] = "saved"
    /\ progress.kind = "summary"

\* C7: the skip notice of a failed entry shows that entry's 1-based position in
\* the batch list and the length of the list.
C7_SkipNoticePosition ==
    (bpc = "sleep" /\ progress.kind = "skip") =>
        progress.pos = idx /\ progress.total = Len(entries)

InFlight == {i \in 1..Len(status) : status[i] \in {"resolving", "converting"}}

\* C8: entries are processed one at a time: an entry is started only when every
\* entry before it is saved or skipped, and at most one entry is being resolved
\* or converted.
C8_Sequential ==
    /\ Cardinality(InFlight) <= 1
    /\ \A i \in 1..Len(status) :
          status[i] # Pending => \A j \in 1..(i - 1) : Finished(j)
    /\ rpc \in {"call", "awaitDoc", "awaitApi"} => InFlight = {idx}
    /\ cpc \in {"call", "await"} => InFlight = {idx}

C8_Witness ==
    /\ Len(entries) >= 2
    /\ status[1] = "saved"
    /\ status[2] = "converting"
    /\ cpc = "await"

\* C9: once the entries are collected the batch reaches its final summary, given
\* that every request it issues ends (response, error, timeout or abort).
C9_BatchTerminates ==
    [](bpc = "loop" => <>(bpc = "done" /\ progress.kind = "summary"))

\* the src attribute of every image is a data: URL and none has a srcset
Inlined(frag) ==
    \A i \in 1..Len(frag) : IsDataUrl(frag[i].src) /\ frag[i].srcset = ""

\* the source the inliner reads from every image is a data: URL
AllSourcesData(frag) == \A i \in 1..Len(frag) : IsDataUrl(ImgSource(frag[i]))

\* C10 as stated: on a fragment whose image sources are all data: URLs the inliner
\* issues no request and leaves every attribute of every image as it was.
C10_UnchangedWhenSourcesAreData ==
    AllSourcesData(imgOrig) => requests = 0 /\ imgs = imgOrig

\* C10: on a fragment in which the src of every image is a data: URL and no image
\* has a srcset, the inliner issues no request and leaves the fragment unchanged.
C10_IdempotentOnInlined ==
    Inlined(imgOrig) => requests = 0 /\ net = {} /\ imgs = imgOrig

C10_Witness ==
    /\ cpc = "done"
    /\ Len(imgOrig) >= 2
    /\ Inlined(imgOrig)
    /\ imgs = imgOrig

\* the data URLs an image request can resolve with
FetchedDataUrls == {DataUrl(resp) : resp \in ImageResponses}

\* the inliner fetched the source of image i (it was neither empty nor a data: URL)
WasFetched(i) ==
    /\ ImgSource(imgOrig[i]) # <<>>
    /\ normalizeUrl(ImgSource(imgOrig[i]), ibase) # <<>>
    /\ ~IsDataUrl(normalizeUrl(ImgSource(imgOrig[i]), ibase))

\* C11: when some image fetches of a fragment fail, the inliner still completes
\* (it is done exactly when every callback has returned), an image whose fetch
\* failed keeps all its attributes, and an image whose fetch succeeded has the data
\* URL as src and no srcset, its other attributes untouched.
C11_PartialImageFailure ==
    /\ cpc \in {"idle", "call", "await", "done"}
    /\ cpc \in {"await", "done"} => (cpc = "done" <=> AllDone(ipc))
    /\ \A i \in 1..Len(ipc) :
        /\ ipc[i] = "failed" => imgs[i] = imgOrig[i]
        /\ (ipc[i] = "done" /\ WasFetched(i)) =>
              /\ imgs[i].src \in FetchedDataUrls
              /\ imgs[i] = [imgOrig[i] EXCEPT !.src = imgs[i].src, !.srcset = ""]

C11_Witness ==
    /\ cpc = "done"
    /\ \E i, j \in 1..Len(ipc) :
        /\ ipc[i] = "failed"
        /\ imgOrig[i].srcset # ""
        /\ ipc[j] = "done"
        /\ WasFetched(j)
        /\ imgs[j] # imgOrig[j]

\* every entry of cache is still in cache2, with the same value
Preserved(cache, cache2) ==
    \A k \in DOMAIN cache : k \in DOMAIN cache2 /\ cache2[k] = cache[k]

\* C12: the entries of both caches are write-once: no step changes the value stored
\* under a key, and every response that is written is written under a new key, also
\* with several fetches of one normalized URL in flight.
C12_CachesWriteOnce ==
    [][/\ Preserved(fetchedDocumentCache, fetchedDocumentCache')
       /\ Preserved(imageDataCache, imageDataCache')
       /\ ImgLoad => DOMAIN imageDataCache' # DOMAIN imageDataCache]_vars

----------------------------------------------------------------------------
(* A session: fetchZhihuArticleDetails called again and again, the caches kept *)

MaxRequests == 3

\* the next call of line 908, by a later iteration or by a later run on the page
CallAgain ==
    /\ rpc = "done"
    /\ requests < MaxRequests
    /\ rpc' = "call"
    /\ rurl' \in UrlPool
    /\ rdoc' = NoDoc
    /\ rres' = Null
    /\ rlog' = <<>>
    /\ rapi' = NoBody
    /\ UNCHANGED <<net, requests, fetchedDocumentCache, imageDataCache, batchVars,
                   inlineVars>>
    /\ UNCHANGED <<helperVars, pageVars>>

NextSession ==
    \/ ResolveCall
    \/ DocLoad(BatchDocs, ResponseTexts)
    \/ DocFail
    \/ ApiLoad(BatchApi)
    \/ ApiFail
    \/ RequestUnhandled
    \/ CallAgain

SpecSession == InitResolve /\ [][NextSession]_vars

\* the key of the document cache for the url being resolved
DocKey == normalizeUrl(rurl, WindowLocationHref)

DocRequests(reqs) == {req \in reqs : req.kind = "doc"}

C15_BlockDetectionAdvisory ==
    (rdoc.k = "doc" /\ ~rdoc.hit) =>
        /\ DocKey \in DOMAIN fetchedDocumentCache
        /\ fetchedDocumentCache[DocKey] = rdoc.doc
        /\ rlog \in {ExtractionLog(rdoc.doc), ExtractionLog(rdoc.doc) \o <<"api">>}
        /\ HasContent(extractContentFromDocument(rdoc.doc, rurl)) =>
              /\ rpc = "done"
              /\ rres = extractContentFromDocument(rdoc.doc, rurl)

C15_Witness ==
    /\ rpc = "done"
    /\ rdoc.k = "doc"
    /\ ~rdoc.hit
    /\ rdoc.blocked = "SECURITY_CHECK"
    /\ rres.k = "rec"
    /\ rres = extractContentFromDocument(rdoc.doc, rurl)

\* C16: fetchZhihuArticleDetailsByApi settles with a record or with null: with null,
\* and without a request, when the url holds no numeric id; with null when the
\* request fails, when the body is not JSON and when the JSON has no non-empty
\* content string; with a record only for JSON with a non-empty content string.
C16_ApiClientNeverRaises ==
    (rpc = "done" /\ InSeq("api", rlog)) =>
        /\ rres.k \in {"rec", "null"}
        /\ extractZhihuArticleId(rurl) = "" =>
              /\ rres = Null
              /\ rapi = NoBody
              /\ requests = (IF DocKey = <<>> THEN 0 ELSE 1)
        /\ rapi = NoBody => rres = Null
        /\ rapi.t = "bad" => rres = Null
        /\ (rapi.t = "json" /\ ~HasContentString(rapi)) => rres = Null
        /\ rres.k = "rec" => (rapi.t = "json" /\ HasContentString(rapi))

C16_Witness ==
    /\ rpc = "done"
    /\ InSeq("api", rlog)
    /\ extractZhihuArticleId(rurl) # ""
    /\ rapi.t = "json"
    /\ ~HasContentString(rapi)
    /\ rres = Null

----------------------------------------------------------------------------
(* The helper functions applied on their own *)

MaxApplications == 2

\* a value a helper returned, as against the exception Throw
Returned(v) == [k |-> "ok", v |-> v]

RawHeads == {"data:", "//", "http://", "https://", "HTTP://", "mailto:", "/p/", "/img/",
             "ftp://["}

RawTails == {<<"pic.zhimg.com", "/img/", "a.png">>, <<"101">>,
             <<"www.zhihu.com", "/p/", "101">>}

\* raw urls: empty, data:, protocol-relative, absolute http(s), absolute with
\* another scheme, relative, and one no base makes parsable
RawUrlPool == {<<>>} \cup {<<h>> \o t : h \in RawHeads, t \in RawTails}

BasePool == {WindowLocationHref, ArticleUrl("101"), <<>>, <<"about:", "blank">>}

InitNormalize ==
    /\ InitCaches
    /\ IdleResolver
    /\ IdleBatch
    /\ IdleInline
    /\ IdlePage
    /\ fpc = "normalizeUrl"
    /\ farg \in [rawUrl : RawUrlPool, base : BasePool]
    /\ fval = <<>>

\* normalizeUrl applied to the raw url, then to its own result
ApplyNormalizeUrl ==
    /\ fpc = "normalizeUrl"
    /\ Len(fval) < MaxApplications
    /\ fval' = Append(fval,
                 IF fval = <<>>
                 THEN (IF normalizeUrlThrows(Str(farg.rawUrl)) THEN Throw
                       ELSE Returned(normalizeUrl(farg.rawUrl, farg.base)))
                 ELSE (IF normalizeUrlThrows(Str(fval[Len(fval)].v)) THEN Throw
                       ELSE Returned(normalizeUrl(fval[Len(fval)].v, farg.base))))
    /\ UNCHANGED <<fpc, farg, net, requests, fetchedDocumentCache, imageDataCache,
                   resolverVars, batchVars, inlineVars, pageVars>>

NextNormalize == ApplyNormalizeUrl

SpecNormalize == InitNormalize /\ [][NextNormalize]_vars

\* C17: normalizeUrl never throws for a string, and applied to its own result with
\* the same base it returns that result again.
C17_NormalizeUrlIdempotent ==
    fpc = "normalizeUrl" =>
        \A i \in 1..Len(fval) : fval[i].k = "ok" /\ fval[i] = fval[1]

C17_Witness ==
    /\ fpc = "normalizeUrl"
    /\ Len(fval) = 2
    /\ farg.rawUrl = <<"/img/", "pic.zhimg.com", "/img/", "a.png">>
    /\ fval[1].v # farg.rawUrl
    /\ fval[2] = fval[1]

MaxQuarterDays == 96

\* unix timestamps in seconds, a quarter of a day apart
Timestamps == {k * 21600 : k \in 0..MaxQuarterDays}

InitParseDate ==
    /\ InitCaches
    /\ IdleResolver
    /\ IdleBatch
    /\ IdleInline
    /\ IdlePage
    /\ fpc = "parseIsoDate"
    /\ farg \in Timestamps
    /\ fval = <<>>

\* parseIsoDate applied to an instant in seconds and to the same instant in
\* milliseconds
ApplyParseIsoDate ==
    /\ fpc = "parseIsoDate"
    /\ fval = <<>>
    /\ fval' = <<Returned(parseIsoDate(NumDate(farg))),
                 Returned(parseIsoDate(NumDate(farg * 1000)))>>
    /\ UNCHANGED <<fpc, farg, net, requests, fetchedDocumentCache, imageDataCache,
                   resolverVars, batchVars, inlineVars, pageVars>>

NextParseDate == ApplyParseIsoDate

SpecParseDate == InitParseDate /\ [][NextParseDate]_vars

\* C18: parseIsoDate gives the same date for a timestamp t in seconds and for
\* t * 1000, the same instant in milliseconds, small t included.
C18_SecondsAndMilliseconds ==
    (fpc = "parseIsoDate" /\ Len(fval) = 2) => fval[1] = fval[2]

----------------------------------------------------------------------------
(* The tables rule of createTurndownService *)

MaxRows == 3

\* a <th> or <td> with its textContent, a string given as its characters
Cell(tag, text) == [tag |-> tag, text |-> text]

Whitespace == {" ", "\n"}

RECURSIVE TrimLeft(_)
TrimLeft(str) ==
    IF str # <<>> /\ Head(str) \in Whitespace THEN TrimLeft(Tail(str)) ELSE str

RECURSIVE TrimRight(_)
TrimRight(str) ==
    IF str # <<>> /\ str[Len(str)] \in Whitespace
    THEN TrimRight(SubSeq(str, 1, Len(str) - 1))
    ELSE str

\* .replace(/\n/g, ' ')
ReplaceNewlines(str) == [i \in 1..Len(str) |-> IF str[i] = "\n" THEN " " ELSE str[i]]

\* cellText || ' '
OrSpace(str) == IF str = <<>> THEN <<" ">> ELSE str

\* cell.textContent.trim().replace(/\n/g, ' ') || ' '
cellText(cell) == OrSpace(ReplaceNewlines(TrimRight(TrimLeft(cell.text))))

\* strs.join(' | ')
RECURSIVE JoinCells(_)
JoinCells(strs) ==
    IF Len(strs) = 0 THEN <<>>
    ELSE IF Len(strs) = 1 THEN Head(strs)
    ELSE Head(strs) \o <<" ", "|", " ">> \o JoinCells(Tail(strs))

\* '| ' + strs.join(' | ') + ' |'
PipeLine(strs) == <<"|", " ">> \o JoinCells(strs) \o <<" ", "|">>

\* row.querySelectorAll('th, td') of a row, as one Markdown line
markdownRow(row) == PipeLine([i \in 1..Len(row) |-> cellText(row[i])])

CellsOf(row, tag) == {i \in 1..Len(row) : row[i].tag = tag}

\* n cells of ---
separatorOf(n) == PipeLine([i \in 1..n |-> <<"-", "-", "-">>])

\* a separator with one cell per cell of the first row, <th> or <td>
separatorRow_EveryCell(firstRow) == separatorOf(Len(firstRow))

\* lines 165-174: the cells counted are the <th> if there is one, else the <td>
separatorRow(firstRow) ==
    IF CellsOf(firstRow, "th") # {}
    THEN separatorOf(Cardinality(CellsOf(firstRow, "th")))
    ELSE separatorOf(Cardinality(CellsOf(firstRow, "td")))

\* the lines the replacement joins with '\n' for the rows of a table; with no row
\* it returns the converted content, here no line
tablesRule(rows) ==
    IF Len(rows) = 0 THEN <<>>
    ELSE <<markdownRow(rows[1]), separatorRow(rows[1])>>
         \o [i \in 1..(Len(rows) - 1) |-> markdownRow(rows[i + 1])]

RowPool ==
    {<<>>,
     <<Cell("th", <<"A">>), Cell("th", <<"B">>)>>,
     <<Cell("td", <<"1">>), Cell("td", <<"2">>)>>,
     <<Cell("th", <<"A">>), Cell("td", <<"1">>)>>,
     <<Cell("td", <<>>)>>,
     <<Cell("td", <<" ", "x", "\n", "y", " ">>), Cell("td", <<"2">>), Cell("td", <<"1">>)>>}

TablePool == UNION {[1..n -> RowPool] : n \in 0..MaxRows}

InitTable ==
    /\ InitCaches
    /\ IdleResolver
    /\ IdleBatch
    /\ IdleInline
    /\ IdlePage
    /\ fpc = "tables"
    /\ farg \in TablePool
    /\ fval = <<>>

ApplyTablesRule ==
    /\ fpc = "tables"
    /\ fval = <<>>
    /\ fval' = <<Returned(tablesRule(farg))>>
    /\ UNCHANGED <<fpc, farg, net, requests, fetchedDocumentCache, imageDataCache,
                   resolverVars, batchVars, inlineVars, pageVars>>

NextTable == ApplyTablesRule

SpecTable == InitTable /\ [][NextTable]_vars

\* the table with header row [A, B] and data row [1, 2], and its three lines
HeaderAndRow ==
    <<<<Cell("th", <<"A">>), Cell("th", <<"B">>)>>,
      <<Cell("td", <<"1">>), Cell("td", <<"2">>)>>>>

HeaderAndRowLines ==
    <<<<"|", " ", "A", " ", "|", " ", "B", " ", "|">>,
      <<"|", " ", "-", "-", "-", " ", "|", " ", "-", "-", "-", " ", "|">>,
      <<"|", " ", "1", " ", "|", " ", "2", " ", "|">>>>

\* the number of separator cells for a first row
SeparatorCells(firstRow) ==
    IF \E i \in 1..Len(firstRow) : firstRow[i].tag = "th"
    THEN Cardinality({i \in 1..Len(firstRow) : firstRow[i].tag = "th"})
    ELSE Cardinality({i \in 1..Len(firstRow) : firstRow[i].tag = "td"})

\* C19: a table of R >= 1 rows gives R + 1 lines: the first row, a separator of ---
\* cells, as many as the first row has header cells, or data cells when it has no
\* header cell, then the other rows in order; header [A, B] with row [1, 2] gives
\* the header line, a separator of two cells and the data line.
C19_TableRule ==
    (fpc = "tables" /\ fval # <<>> /\ Len(farg) >= 1) =>
        /\ Len(fval[1].v) = Len(farg) + 1
        /\ fval[1].v[1] = markdownRow(farg[1])
        /\ fval[1].v[2] = separatorOf(SeparatorCells(farg[1]))
        /\ \A i \in 2..Len(farg) : fval[1].v[i + 1] = markdownRow(farg[i])
        /\ \A i \in 1..Len(fval[1].v) : \A j \in 1..Len(fval[1].v[i]) :
               fval[1].v[i][j] # "\n"
        /\ farg = HeaderAndRow => fval[1].v = HeaderAndRowLines

C19_Witness ==
    /\ fpc = "tables"
    /\ farg = HeaderAndRow
    /\ fval # <<>>
    /\ fval[1].v = HeaderAndRowLines

----------------------------------------------------------------------------
(* The origins of the requests *)

\* the hosts of the @connect lines of the metadata block; *.zhimg.com stands for
\* the image hosts
ConnectHosts == {"zhihu.com", "www.zhihu.com", "zhuanlan.zhihu.com", "zhimg.com",
                 "pic.zhimg.com"}

\* C20: every request in flight is a GET to an http(s) url whose host is on the list
\* of the metadata block, whatever urls the fragment or the list page holds.
C20_GetToAllowedOrigins ==
    \A req \in net :
        /\ req.method = "GET"
        /\ Len(req.url) >= 2
        /\ Head(req.url) \in {"http://", "https://"}
        /\ req.url[2] \in ConnectHosts

----------------------------------------------------------------------------
(* The status indicator: showProgress and the timers it arms *)

MaxCalls == 3
MaxSeconds == 6

\* the timeouts the script passes: none (0), the skip notice, the batch summary
Timeouts == {0, 2000, 4000}

\* the callback of setTimeout(..., timeout) armed by call number n
Timer(n, due) == [of |-> n, due |-> due]

\* showProgress(message, timeout): the element is created on the first call, its
\* text replaced and its display set to 'block'; a timer is armed when timeout > 0,
\* and no timer of an earlier call is cleared
ShowProgress(timeout) ==
    /\ Len(calls) < MaxCalls
    /\ calls' = Append(calls, timeout)
    /\ shown' = TRUE
    /\ timers' = IF timeout > 0
                 THEN timers \cup {Timer(Len(calls) + 1, now + timeout)}
                 ELSE timers
    /\ UNCHANGED <<now, net, requests, fetchedDocumentCache, imageDataCache,
                   resolverVars, batchVars, inlineVars, helperVars>>
    /\ UNCHANGED <<processVars, collectVars, runVars>>

\* a timer that is due runs its callback: progress.style.display = 'none'
TimerFires(t) ==
    /\ t \in timers
    /\ t.due <= now
    /\ shown' = FALSE
    /\ timers' = timers \ {t}
    /\ UNCHANGED <<calls, now, net, requests, fetchedDocumentCache, imageDataCache,
                   resolverVars, batchVars, inlineVars, helperVars>>
    /\ UNCHANGED <<processVars, collectVars, runVars>>

\* a second passes; the timers that are due have run
Tick ==
    /\ now \div 1000 < MaxSeconds
    /\ \A t \in timers : t.due > now
    /\ now' = now + 1000
    /\ UNCHANGED <<calls, shown, timers, net, requests, fetchedDocumentCache,
                   imageDataCache, resolverVars, batchVars, inlineVars, helperVars>>
    /\ UNCHANGED <<processVars, collectVars, runVars>>

InitProgress ==
    /\ InitCaches
    /\ IdleResolver
    /\ IdleBatch
    /\ IdleInline
    /\ IdleHelpers
    /\ IdlePage

NextProgress ==
    \/ \E timeout \in Timeouts : ShowProgress(timeout)
    \/ \E t \in timers : TimerFires(t)
    \/ Tick

SpecProgress == InitProgress /\ [][NextProgress]_vars

\* C21: the indicator is hidden only by the timer of the most recent showProgress
\* call, so never while the message of a call with timeout zero is the one shown
\* and never by a timer armed for an earlier message.
C21_HiddenOnlyByLatestTimeout ==
    [][(shown /\ ~shown') =>
          /\ calls[Len(calls)] > 0
          /\ \E t \in timers \ timers' : t.of = Len(calls)]_vars

----------------------------------------------------------------------------
(* The title of the resolved record *)

\* C22: every record fetchZhihuArticleDetails resolves with has a non-empty title,
\* whichever strategy built it.
C22_TitleNeverEmpty ==
    (rpc = "done" /\ rres.k = "rec") => rres.title # ""

----------------------------------------------------------------------------
(* Ownership of the content element *)

\* C23: the content of a returned record is a clone or a freshly built fragment,
\* never a node of a document held in fetchedDocumentCache, which a later
\* resolution of the same url would return again.
C23_ContentExclusivelyOwned ==
    (rpc = "done" /\ rres.k = "rec") =>
        /\ rres.content.owner = "fresh"
        /\ \A u \in DOMAIN fetchedDocumentCache :
               rres.content # DomContent(fetchedDocumentCache[u])

----------------------------------------------------------------------------
(* processContent *)

\* an element handed to processContent: its <style> children, its <script> and
\* <noscript> children, whether it holds a .ContentItem-more element, its images
Element(styles, scripts, more, images) ==
    [k |-> "node", styles |-> styles, scripts |-> scripts, more |-> more,
     imgs |-> images]

\* content.querySelectorAll(...).forEach(node => node.remove()), lines 634-638
Stripped(element) == [element EXCEPT !.styles = 0, !.scripts = 0, !.more = FALSE]

\* the map callback of img needs a request
NeedsFetch(img, baseUrl) ==
    ImgSource(img) # <<>> /\ ~ResolvesAtOnce(normalizeUrl(ImgSource(img), baseUrl))

\* img after the synchronous part of its map callback
StartedImage(img, baseUrl) ==
    IF ImgSource(img) = <<>> \/ NeedsFetch(img, baseUrl) THEN img
    ELSE Embed(img, ValueAtOnce(normalizeUrl(ImgSource(img), baseUrl)))

Awaited(images, baseUrl) == {j \in 1..Len(images) : NeedsFetch(images[j], baseUrl)}

\* the removals applied to the element itself instead of a clone
ProcessCall_InPlace(url) ==
    /\ ppc = "call"
    /\ contentElement # NoNode
    /\ contentElement' = Stripped(contentElement)
    /\ clone' = Stripped(contentElement)
    /\ ibase' = url
    /\ imgOrig' = contentElement.imgs
    /\ imgs' = contentElement.imgs
    /\ ipc' = [i \in 1..Len(contentElement.imgs) |-> "done"]
    /\ cpc' = "done"
    /\ ppc' = "await"
    /\ UNCHANGED <<net, requests, fetchedDocumentCache, imageDataCache, resolverVars,
                   batchVars, helperVars, indicatorVars, collectVars, runVars>>

\* processContent(title, contentElement, author, date, url) up to its await: it
\* throws for a missing element, otherwise clones the element, removes the style,
\* script, noscript and load-more elements of the clone and runs
\* convertImagesToDataUrls(content, url) on the images of the clone
ProcessCall(url) ==
    /\ ppc = "call"
    /\ IF contentElement = NoNode
       THEN /\ ppc' = "threw"
            /\ UNCHANGED <<clone, inlineVars, net, requests>>
       ELSE /\ clone' = Stripped(contentElement)
            /\ ibase' = url
            /\ imgOrig' = contentElement.imgs
            /\ imgs' = [i \in 1..Len(contentElement.imgs) |->
                          StartedImage(contentElement.imgs[i], url)]
            /\ ipc' = [i \in 1..Len(contentElement.imgs) |->
                         IF i \in Awaited(contentElement.imgs, url) THEN "await"
                         ELSE "done"]
            /\ cpc' = IF Awaited(contentElement.imgs, url) = {} THEN "done" ELSE "await"
            /\ net' = net \cup {Request("img",
                                         normalizeUrl(ImgSource(contentElement.imgs[i]), url),
                                         i) : i \in Awaited(contentElement.imgs, url)}
            /\ requests' = requests + Cardinality(Awaited(contentElement.imgs, url))
            /\ ppc' = "await"
    /\ UNCHANGED <<contentElement, fetchedDocumentCache, imageDataCache, resolverVars,
                   batchVars, helperVars, indicatorVars, collectVars, runVars>>

\* the rest of processContent once convertImagesToDataUrls has returned:
\* showProgress (648, 652), then the converter, which returns the markdown of
\* content.innerHTML or throws
ProcessConvert(converted) ==
    /\ ppc = "await"
    /\ cpc = "done"
    /\ calls' = Append(calls, 0)
    /\ shown' = TRUE
    /\ ppc' = IF converted THEN "done" ELSE "threw"
    /\ UNCHANGED <<timers, now, contentElement, clone, net, requests,
                   fetchedDocumentCache, imageDataCache, resolverVars, batchVars,
                   inlineVars, helperVars, collectVars, runVars>>

ElementPool ==
    {NoNode} \cup {Element(n, n, more, images) :
                      n \in {0, 1}, more \in BOOLEAN, images \in Fragments}

InitProcess ==
    /\ InitCaches
    /\ IdleResolver
    /\ IdleBatch
    /\ IdleInline
    /\ IdleHelpers
    /\ IdleIndicator
    /\ IdleCollect
    /\ IdleRuns
    /\ ppc = "call"
    /\ contentElement \in ElementPool
    /\ clone = NoNode

NextProcess ==
    \/ ProcessCall(ArticleUrl("101"))
    \/ ImgLoad
    \/ ImgFail
    \/ RequestUnhandled
    \/ \E converted \in BOOLEAN : ProcessConvert(converted)

SpecProcess == InitProcess /\ [][NextProcess]_vars

\* C24: no step of processContent changes the element it was given, whether the
\* call ends with the markdown or with an exception.
C24_InputNeverModified == [][contentElement' = contentElement]_vars

\* the call has ended and its clone lost a style element and had an image inlined
C24_Witness ==
    /\ ppc \in {"done", "threw"}
    /\ contentElement # NoNode
    /\ contentElement.styles > 0
    /\ clone.styles = 0
    /\ imgs # contentElement.imgs

----------------------------------------------------------------------------
(* Link collection: collectEntriesFromDom and autoCollectEntries *)

MaxItems == 1

maxIdleRounds == 4
maxRounds == 80

\* a .ContentItem of the list page: the href and text of its link, the text of
\* its title element, its author texts and the values its date is read from
Item(href, linkText, titleText, authors, dates) ==
    [href |-> href, linkText |-> linkText, titleText |-> titleText,
     authors |-> authors, dates |-> dates]

\* the article numbers of the feed, as text
FeedDigits == {ToString(n) : n \in 1..maxRounds}

\* /\/p\/\d+/.test(url)
IsArticleLink(url) ==
    \E i \in 1..(Len(url) - 1) :
        url[i] = "/p/" /\ (url[i + 1] \in Digits \/ url[i + 1] \in FeedDigits)

\* lines 829-853; a text is written as the one-token sequence of it, so that the
\* title can fall back to the url
EntryOf(item, url) ==
    [url |-> url,
     title |-> IF FirstText(<<item.linkText, item.titleText>>, "") # ""
               THEN <<FirstText(<<item.linkText, item.titleText>>, "")>> ELSE url,
     author |-> FirstText(item.authors, "Unknown"),
     date |-> IF DateTruthy(FirstTruthyDate(item.dates))
              THEN parseIsoDate(FirstTruthyDate(item.dates)) ELSE <<>>]

HasKey(map, url) == \E i \in 1..Len(map) : map[i].url = url

\* map.set(url, entry) on a Map kept as the list of its values in insertion order
MapSet(map, url, entry) ==
    IF HasKey(map, url)
    THEN [i \in 1..Len(map) |-> IF map[i].url = url THEN entry ELSE map[i]]
    ELSE Append(map, entry)

\* collectEntriesFromDom() over the items of the page, entries being the Map so far
RECURSIVE collectEntriesFromDom(_, _)
collectEntriesFromDom(nodes, found) ==
    IF nodes = <<>> THEN found
    ELSE IF normalizeUrl(Head(nodes).href, WindowLocationHref) = <<>>
            \/ ~IsArticleLink(normalizeUrl(Head(nodes).href, WindowLocationHref))
    THEN collectEntriesFromDom(Tail(nodes), found)
    ELSE collectEntriesFromDom(
             Tail(nodes),
             MapSet(found, normalizeUrl(Head(nodes).href, WindowLocationHref),
                    EntryOf(Head(nodes),
                            normalizeUrl(Head(nodes).href, WindowLocationHref))))

\* every entry of current put under its url, replacing what all holds for it
RECURSIVE Merge_Overwrite(_, _)
Merge_Overwrite(map, current) ==
    IF current = <<>> THEN map
    ELSE Merge_Overwrite(MapSet(map, Head(current).url, Head(current)), Tail(current))

\* for (const [url, entry] of current.entries()) if (!all.has(url)) all.set(url, entry)
RECURSIVE Merge(_, _)
Merge(map, current) ==
    IF current = <<>> THEN map
    ELSE Merge(IF HasKey(map, Head(current).url) THEN map
               ELSE Append(map, Head(current)),
               Tail(current))

\* an idle counter that is never reset
IdleAfter_NeverReset(size, last, idle) == idle + 1

\* lines 877-882
IdleAfter(size, last, idle) == IF size = last THEN idle + 1 ELSE 0

\* two links to one article with different metadata, a link without text, and a
\* link that is no article
ListItems ==
    {Item(<<"/p/", "101">>, "A", "A", <<"", "">>, <<Undef>>),
     Item(<<"https://", "www.zhihu.com", "/p/", "101">>, "B", "B", <<"Author", "">>,
          <<IsoDate(9)>>),
     Item(<<"//", "zhuanlan.zhihu.com", "/p/", "102">>, "", "", <<"", "">>, <<Undef>>),
     Item(<<"/question/", "7">>, "Q", "Q", <<"", "">>, <<Undef>>)}

\* the lists of up to MaxItems different items
ListDoms ==
    {d \in UNION {[1..n -> ListItems] : n \in 0..MaxItems} :
        \A i, j \in 1..Len(d) : d[i] = d[j] => i = j}

\* a page of the feed shows its newest link only
FeedItem(n) == Item(<<"/p/", ToString(n)>>, "A", "A", <<"", "">>, <<Undef>>)

\* the items the page can hold at the next collectEntriesFromDom(): any items of a
\* small list, or, for the feed, a link that was never shown before
ListPage == [kind |-> "list", made |-> 0]
FeedPage(n) == [kind |-> "feed", made |-> n]

PagesAfter(p) ==
    IF p.kind = "list"
    THEN {[page |-> ListPage, dom |-> d] : d \in ListDoms}
    ELSE {[page |-> FeedPage(p.made + 1), dom |-> <<FeedItem(p.made + 1)>>]}

\* one iteration of the loop of autoCollectEntries up to its await sleep(1200),
\* or up to the break: the page shows nodes
CollectRound(after) ==
    /\ apc = "round"
    /\ round < maxRounds
    /\ page' = after.page
    /\ dom' = after.dom
    /\ all' = Merge(all, collectEntriesFromDom(after.dom, <<>>))
    /\ calls' = Append(calls, 0)
    /\ shown' = TRUE
    /\ idleRounds' = IdleAfter(Len(all'), lastSize, idleRounds)
    /\ lastSize' = IF Len(all') = lastSize THEN lastSize ELSE Len(all')
    /\ apc' = IF idleRounds' >= maxIdleRounds THEN "done" ELSE "sleep"
    /\ quiet' = IF Len(all') = Len(all) THEN quiet + 1 ELSE 0
    /\ UNCHANGED <<round, timers, now, net, requests, fetchedDocumentCache,
                   imageDataCache, resolverVars, batchVars, inlineVars, helperVars,
                   processVars, runVars>>

\* sleep(1200) resolves: round += 1 and the loop test
RoundSleepDone ==
    /\ apc = "sleep"
    /\ round' = round + 1
    /\ apc' = IF round + 1 < maxRounds THEN "round" ELSE "done"
    /\ UNCHANGED <<all, idleRounds, lastSize, dom, page, quiet, indicatorVars, net,
                   requests, fetchedDocumentCache, imageDataCache, resolverVars,
                   batchVars, inlineVars, helperVars, processVars, runVars>>

InitCollect ==
    /\ InitCaches
    /\ IdleResolver
    /\ IdleBatch
    /\ IdleInline
    /\ IdleHelpers
    /\ IdleIndicator
    /\ IdleProcess
    /\ IdleRuns
    /\ apc = "round"
    /\ all = <<>>
    /\ idleRounds = 0
    /\ lastSize = 0
    /\ round = 0
    /\ dom = <<>>
    /\ page \in {ListPage, FeedPage(0)}
    /\ quiet = 0

NextCollect ==
    \/ \E after \in PagesAfter(page) : CollectRound(after)
    \/ RoundSleepDone

SpecCollect == InitCollect /\ [][NextCollect]_vars

\* the timer of sleep(1200) fires, and the loop body runs when it is reached
LiveCollect == SpecCollect /\ WF_vars(NextCollect)

\* C25: autoCollectEntries ends; it runs collectEntriesFromDom at most maxRounds
\* times, goes on to scroll only while fewer than maxIdleRounds rounds in a row
\* added nothing, and ends only for one of these two reasons.
C25_CollectionTerminates ==
    /\ [](/\ Len(calls) <= maxRounds
          /\ round <= maxRounds
          /\ apc = "sleep" => quiet < maxIdleRounds
          /\ apc = "done" => (quiet >= maxIdleRounds \/ Len(calls) = maxRounds))
    /\ <>(apc = "done")

\* the page gave a new link in every round, up to the cap
C25_Witness ==
    /\ apc = "done"
    /\ Len(calls) = maxRounds
    /\ Len(all) = maxRounds

\* the entry all holds for url differs from what the page shows for it now
ShownDifferently(entry) ==
    /\ HasKey(collectEntriesFromDom(dom, <<>>), entry.url)
    /\ \A i \in 1..Len(collectEntriesFromDom(dom, <<>>)) :
           collectEntriesFromDom(dom, <<>>)[i].url = entry.url
           => collectEntriesFromDom(dom, <<>>)[i] # entry

\* C26: all holds each normalized url at most once, and a round neither removes
\* nor changes an entry that all already holds.
C26_AccumulatesWithoutOverwrite ==
    /\ [](\A i, j \in 1..Len(all) :
             normalizeUrl(all[i].url, WindowLocationHref)
               = normalizeUrl(all[j].url, WindowLocationHref) => i = j)
    /\ [][\A i \in 1..Len(all) : Len(all') >= i /\ all'[i] = all[i]]_vars

\* after a later round, all still holds an entry the page no longer shows and
\* one the page now shows with another title
C26_Witness ==
    /\ round >= 1
    /\ \E i \in 1..Len(all) : ~HasKey(collectEntriesFromDom(dom, <<>>), all[i].url)
    /\ \E i \in 1..Len(all) : ShownDifferently(all[i])

----------------------------------------------------------------------------
(* findEntityWithContent on its own *)

\* what a bucket of the embedded state holds: nothing that has content (an entity
\* whose content is blanks, or one without a content string), an entity with
\* content, or both
NamedEntity(title, html) ==
    Entity(html, title, "", <<"", "", "">>, <<Undef, Undef>>, Undef, "", "")

BucketKinds == {"absent", "blank", "missing", "plain", "both"}

ItemsOf(key, kind) ==
    CASE kind = "blank"   -> <<NamedEntity("Blank", BlankHtml)>>
      [] kind = "missing" -> <<NamedEntity("Missing", NoHtml)>>
      [] kind = "plain"   -> <<NamedEntity(key, StateHtml)>>
      [] kind = "both"    -> <<NamedEntity("Blank", BlankHtml), NamedEntity(key, StateHtml)>>
      [] OTHER            -> <<>>

\* the keys of the entities object, in the two orders the JSON can list them
KeyOrders ==
    {<<"articles", "answers", "posts", "zvideos", "pins">>,
     <<"pins", "zvideos", "posts", "answers", "articles">>}

\* the entities object with its keys in the order keys and the buckets kinds names
RECURSIVE EntitiesOf(_, _)
EntitiesOf(keys, kinds) ==
    IF keys = <<>> THEN <<>>
    ELSE (IF kinds[Head(keys)] = "absent" THEN <<>>
          ELSE <<Bucket(Head(keys), ItemsOf(Head(keys), kinds[Head(keys)]))>>)
         \o EntitiesOf(Tail(keys), kinds)

EntitiesPool ==
    {EntitiesOf(keys, kinds) :
        keys \in KeyOrders,
        kinds \in [{"articles", "answers", "posts", "zvideos", "pins"} -> BucketKinds]}

InitFind ==
    /\ InitCaches
    /\ IdleResolver
    /\ IdleBatch
    /\ IdleInline
    /\ IdlePage
    /\ fpc = "findEntityWithContent"
    /\ farg \in EntitiesPool
    /\ fval = <<>>

\* findEntityWithContent(entities, ['articles', 'answers', 'posts', 'zvideos'])
ApplyFindEntity ==
    /\ fpc = "findEntityWithContent"
    /\ fval = <<>>
    /\ fval' = <<Returned(findEntityWithContent(farg, PreferredKeys))>>
    /\ UNCHANGED <<fpc, farg, net, requests, fetchedDocumentCache, imageDataCache,
                   resolverVars, batchVars, inlineVars, pageVars>>

NextFind == ApplyFindEntity

SpecFind == InitFind /\ [][NextFind]_vars

\* the content of item is a non-empty string
NonEmptyContent(item) == item.content.t = "str" /\ ~item.content.empty

\* the content of item is a string that is not empty after trimming
NonBlankContent(item) == item.content.t = "str" /\ ~item.content.blank

\* the keys of the buckets of entities that hold an entity with content
Holding(entities, WithContent(_)) ==
    {entities[i].key : i \in {j \in 1..Len(entities) :
        \E n \in 1..Len(entities[j].items) : WithContent(entities[j].items[n])}}

\* the first preferred key in holding
EarliestPreferred(holding) ==
    PreferredKeys[Min({i \in 1..Len(PreferredKeys) : PreferredKeys[i] \in holding})]

\* result is what the claim asks of findEntityWithContent for entities
FindsEarliest(entities, result, WithContent(_)) ==
    /\ result = Null <=> Holding(entities, WithContent) = {}
    /\ result # Null =>
         /\ result.key \in Holding(entities, WithContent)
         /\ WithContent(result.entity)
         /\ \E i \in 1..Len(entities) :
               /\ entities[i].key = result.key
               /\ InSeq(result.entity, entities[i].items)
         /\ IF \E i \in 1..Len(PreferredKeys) :
                  PreferredKeys[i] \in Holding(entities, WithContent)
            THEN result.key = EarliestPreferred(Holding(entities, WithContent))
            ELSE ~InSeq(result.key, PreferredKeys)

\* C27 as stated: the result is an entity with a non-empty content string from the
\* earliest of articles, answers, posts, zvideos that holds one, from another
\* bucket only when none of the four does, and null exactly when no bucket does.
C27_EarliestBucketNonEmpty ==
    (fpc = "findEntityWithContent" /\ fval # <<>>) =>
        FindsEarliest(farg, fval[1].v, NonEmptyContent)

\* C27, amended: the same with content that is not empty after trimming.
C27_EarliestBucketNonBlank ==
    (fpc = "findEntityWithContent" /\ fval # <<>>) =>
        FindsEarliest(farg, fval[1].v, NonBlankContent)

\* answers is the earliest bucket with content, after an articles bucket that
\* holds only blanks and before a pins bucket listed first
C27_Witness ==
    /\ fpc = "findEntityWithContent"
    /\ fval # <<>>
    /\ Len(farg) >= 3
    /\ farg[1].key = "pins"
    /\ "pins" \in Holding(farg, NonBlankContent)
    /\ "articles" \in Holding(farg, NonEmptyContent)
    /\ "articles" \notin Holding(farg, NonBlankContent)
    /\ fval[1].v # Null
    /\ fval[1].v.key = "answers"

----------------------------------------------------------------------------
(* When the embedded state is consulted *)

\* the DOM extraction is insufficient: no content fragment, a trimmed text shorter
\* than 200 characters, or a read-more marker
Insufficient(fragment) ==
    \/ fragment = NoNode
    \/ fragment.text < MinTextLength
    \/ fragment.more

\* the record built from the DOM of doc alone
DomRecord(doc, url) ==
    [k |-> "rec", title |-> DomTitle(doc), content |-> DomContent(doc),
     author |-> DomAuthor(doc), date |-> DomDate(doc),
     url |-> normalizeUrl(OrUrl(DomCanonicalUrl(doc, url), url), WindowLocationHref)]

\* C28: once the document is there, the embedded state has been consulted exactly
\* when the DOM extraction is insufficient; when it is sufficient the call ends
\* with the record of the DOM alone, the same as for the page without its state.
C28_StateConsultedIffInsufficient ==
    rdoc.k = "doc" =>
        /\ InSeq("state", rlog) <=> Insufficient(DomContent(rdoc.doc))
        /\ ~Insufficient(DomContent(rdoc.doc)) =>
             /\ rpc = "done"
             /\ rres = DomRecord(rdoc.doc, rurl)
             /\ rres = extractContentFromDocument(
                           [rdoc.doc EXCEPT !.initialData = NoInitialData], rurl)

\* a page with sufficient DOM content whose embedded state holds an entity that a
\* consultation would have taken the title from
C28_Witness ==
    /\ rpc = "done"
    /\ rdoc.k = "doc"
    /\ ~Insufficient(DomContent(rdoc.doc))
    /\ extractFromInitialData(rdoc.doc, rurl) # Null
    /\ extractFromInitialData(rdoc.doc, rurl) # Throw
    /\ extractFromInitialData(rdoc.doc, rurl).title = "StateTitle"
    /\ rres.title # "StateTitle"
    /\ rlog = <<"dom">>

\* the state is consulted for a text of 200 characters that holds a read-more marker
C28_WitnessReadMore ==
    /\ rdoc.k = "doc"
    /\ DomContent(rdoc.doc) # NoNode
    /\ DomContent(rdoc.doc).text >= MinTextLength
    /\ DomContent(rdoc.doc).more
    /\ rlog = <<"dom", "state">>

----------------------------------------------------------------------------
(* Which entity the embedded state gives *)

\* the entities of the embedded state of doc, none when it has no such object
EntitiesIn(doc) ==
    IF doc.initialData.t = "json" /\ doc.initialData.hasEntities
    THEN doc.initialData.entities ELSE <<>>

\* entities holds an entity with content whose id is id
HoldsEntityOf(entities, id) ==
    \E i \in 1..Len(entities) : \E n \in 1..Len(entities[i].items) :
        entities[i].items[n].id = id /\ HasContentString(entities[i].items[n])

\* C29: when the embedded state is consulted for an article url and holds the
\* entity with the id of that url, the entity whose content is taken is that one.
C29_FallbackEntityMatchesUrl ==
    (/\ rdoc.k = "doc"
     /\ InSeq("state", rlog)
     /\ extractZhihuArticleId(rurl) # ""
     /\ HoldsEntityOf(EntitiesIn(rdoc.doc), extractZhihuArticleId(rurl)))
    => findEntityWithContent(EntitiesIn(rdoc.doc), PreferredKeys).entity.id
         = extractZhihuArticleId(rurl)

----------------------------------------------------------------------------
(* The download button: handleDownload and the runs it starts *)

MaxClicks == 3

\* A run is written as its position alone: "convert" while processContent awaits
\* its images, "collect" while autoCollectEntries sleeps between rounds, "resolve"
\* while the batch loop awaits fetchZhihuArticleDetails, "sleep" while it awaits
\* sleep, "done" once the function has returned; left counts the entries of the
\* batch that remain
Run(kind, pc, left) == [kind |-> kind, pc |-> pc, left |-> left]

\* the branch handleDownload takes for the page
PageKind(url) ==
    IF Len(url) >= 3 /\ url[2] = "zhuanlan.zhihu.com" /\ url[3] = "/p/" THEN "article"
    ELSE IF Len(url) >= 5 /\ url[3] = "/question/" /\ url[5] = "/answer/" THEN "answer"
    ELSE IF Len(url) >= 5 /\ url[3] = "/people/" /\ url[5] = "/posts" THEN "list"
    ELSE "unsupported"

\* a click on the button: handleDownload calls the download function of the page
\* and returns. A single-page download runs to its end at once when no image
\* has to be fetched, otherwise to the await of the image requests; the batch
\* download returns at once when the confirm is declined, otherwise runs to the
\* first sleep of autoCollectEntries; another page gets the alert
HandleDownload(proceed, fetches) ==
    /\ Len(runs) < MaxClicks
    /\ runs' = Append(runs,
                 CASE PageKind(locationHref) \in {"article", "answer"} ->
                        Run("single", IF fetches THEN "convert" ELSE "done", 0)
                   [] PageKind(locationHref) = "list" ->
                        Run("batch", IF proceed THEN "collect" ELSE "done", 0)
                   [] OTHER -> Run("none", "done", 0))
    /\ UNCHANGED <<locationHref, net, requests, fetchedDocumentCache,
                   imageDataCache, resolverVars, batchVars, inlineVars, helperVars, indicatorVars,
                   processVars, collectVars>>

\* the promise run i awaits settles and the run goes on to its next await or to
\* its end: ok says that it resolved, found how many entries a collection gave
RunStep(i, ok, found) ==
    /\ i \in 1..Len(runs)
    /\ runs[i].pc # "done"
    /\ runs' = [runs EXCEPT ![i] =
                 CASE runs[i].pc = "collect" ->
                        IF found = 0 THEN Run("batch", "done", 0)
                        ELSE Run("batch", "resolve", found)
                   [] runs[i].pc = "resolve" ->
                        Run("batch", IF ok THEN "convert" ELSE "sleep", runs[i].left)
                   [] runs[i].pc = "convert" ->
                        IF runs[i].kind = "single" THEN Run("single", "done", 0)
                        ELSE Run("batch", "sleep", runs[i].left)
                   [] OTHER ->
                        IF runs[i].left > 1
                        THEN Run("batch", "resolve", runs[i].left - 1)
                        ELSE Run("batch", "done", 0)]
    /\ UNCHANGED <<locationHref, net, requests, fetchedDocumentCache,
                   imageDataCache, resolverVars, batchVars, inlineVars, helperVars, indicatorVars,
                   processVars, collectVars>>

Hrefs == {WindowLocationHref, ArticleUrl("101"), AnswerUrl,
          <<"https://", "www.zhihu.com", "/explore">>}

InitRuns ==
    /\ InitCaches
    /\ IdleResolver
    /\ IdleBatch
    /\ IdleInline
    /\ IdleHelpers
    /\ IdleIndicator
    /\ IdleProcess
    /\ IdleCollect
    /\ locationHref \in Hrefs
    /\ runs = <<>>

NextRuns ==
    \/ \E proceed, fetches \in BOOLEAN : HandleDownload(proceed, fetches)
    \/ \E i \in 1..Len(runs), ok \in BOOLEAN, found \in 0..MaxEntries :
          RunStep(i, ok, found)

SpecRuns == InitRuns /\ [][NextRuns]_vars

\* C30: at most one of the runs the button started has not yet returned.
C30_AtMostOneRun ==
    Cardinality({i \in 1..Len(runs) : runs[i].pc # "done"}) <= 1

====
